---- MODULE Spec2Model ----
(***************************************************************************)
(* A model of GraphComponent.vue, the knowledge-graph viewer component:    *)
(* per-dataset view/filter bookkeeping, selection, two-step edge creation, *)
(* filter highlighting, dataset loading, payload normalisation, the grid   *)
(* fallback layout and the zoom-bound computation.                         *)
(***************************************************************************)
EXTENDS Integers, Sequences, FiniteSets, TLC

\* JavaScript null / undefined for references and optional strings.
Null == "null"
\* No edge (edges are referred to by number).
NoEdge == 0
\* A reference to an INode that graph.clear() has removed from the graph.
Stale == "stale"

(***************************************************************************)
(* Bounds of the model.                                                    *)
(***************************************************************************)
\* Number of loadGraph() calls that may be suspended at an await at once.
MaxLoads == 1
\* Number of edges the user creates with 'Add edge' in one behaviour.
MaxNewEdges == 1
\* Number of toolbar clicks (scale buttons) in one behaviour.
MaxToolbarClicks == 3

(***************************************************************************)
(* The bundled datasets (graphModules): two files, each a canonical        *)
(* payload.  fB holds a node whose type carries a trailing blank, so that  *)
(* the trimmed statistics label differs from the raw group string.         *)
(***************************************************************************)
Files == {"fA", "fB"}

NodesOf(file) ==
  IF file = "fA"
  THEN { [id |-> "a1", type |-> "Film",   label |-> "Alien"],
         [id |-> "a2", type |-> Null,     label |-> "Cinema"] }
  ELSE { [id |-> "b1", type |-> "Film",   label |-> "Brazil"],
         [id |-> "b2", type |-> "Actor ", label |-> Null] }

EdgesOf(file) ==
  IF file = "fA"
  THEN { [id |-> 1, src |-> "a1", tgt |-> "a2", relationship |-> "SHOWS", label |-> Null] }
  ELSE { [id |-> 1, src |-> "b2", tgt |-> "b1", relationship |-> Null, label |-> "ACTS"] }

\* String.prototype.trim on the strings of the model.
Trim(s) ==
  IF s = "Actor " THEN "Actor"
  ELSE IF s = " film " THEN "film"
  ELSE IF s = "Relationship " THEN "Relationship"
  ELSE IF s = " " THEN ""
  ELSE s

\* a ?? b
Coalesce(a, b) == IF a # Null THEN a ELSE b

VARIABLES
  selectedFile,            \* ref selectedFile
  lastLoadedFile,          \* let lastLoadedFile
  filterMode,              \* ref filterMode
  activeNodeLabelFilter,   \* ref activeNodeLabelFilter
  activeRelTypeFilter,     \* ref activeRelTypeFilter
  filterSettingsByFile,    \* Map filterSettingsByFile
  nodeScale,               \* ref nodeScale, in tenths
  edgeLenScale,            \* ref edgeLenScale, in tenths
  clusterGapScale,         \* ref clusterGapScale, in tenths
  settingsByFile,          \* Map settingsByFile
  graph,                   \* graphComponent.graph: nodes and edges with their tags
  graphStats,              \* ref graphStats (the label keys)
  selectedNode,            \* ref selectedNode (the tag, by node id)
  selectedEdge,            \* ref selectedEdge (the tag, by edge number)
  lastSelectedINode,       \* let lastSelectedINode
  lastSelectedIEdge,       \* let lastSelectedIEdge
  edgeCreateActive,        \* ref edgeCreateActive
  edgeCreateSource,        \* let edgeCreateSource
  statusMessage,           \* ref statusMessage
  loads,                   \* the suspended loadGraph() calls, each at an await
  newEdges,                \* number of edges created by the user so far
  toolbarClicks,           \* number of toolbar clicks so far
  filtersInEffect,         \* history: per file, the filter state last in effect while it was selected
  viewLastSet,             \* history: per file, the view settings last set by a toolbar click on it
  afhRun,                  \* history: the applyFilterHighlight run of the last step (depth 0: none)
  lastEvent,               \* history: the input-mode event handled by the last step
  staticData,              \* the raw payload handed to normalizeGraphPayload
  normalized,              \* what normalizeGraphPayload returned for it
  gridInput,               \* node count and node scale of a grid fallback run
  gridLayout,              \* node rectangles after spreadNodesInGrid and applyNodeScale
  zoomInput,               \* node count and node scale of a zoom adjustment
  gc                       \* graphComponent.zoom / minimumZoom / maximumZoom

uiVars == << selectedFile, lastLoadedFile, filterMode, activeNodeLabelFilter,
             activeRelTypeFilter, filterSettingsByFile, nodeScale, edgeLenScale,
             clusterGapScale, settingsByFile, graph, graphStats, selectedNode,
             selectedEdge, lastSelectedINode, lastSelectedIEdge, edgeCreateActive,
             edgeCreateSource, statusMessage, loads, newEdges, toolbarClicks,
             filtersInEffect, viewLastSet, afhRun, lastEvent >>

pureVars == << staticData, normalized, gridInput, gridLayout, zoomInput, gc >>

\* State of the parts checked on their own: the dataset list, the evaluation
\* scores, the rename script, the custom layout loop, the DOM listeners and
\* 'Add node here'.
VARIABLES
  dataModules,             \* const dataModules (glob of kgs_data), in glob order
  schemaModules,           \* const schemaModules (glob of kgs_schema), in glob order
  manifestEntries,         \* ref manifestEntries
  initialFile,             \* ref selectedFile as constructed (Null: not constructed yet)
  evaluationSummaryCsvRaw, \* import evaluationSummaryCsvRaw
  evaluationSummary,       \* ref evaluationSummary
  evaluationSummaryLoaded, \* let evaluationSummaryLoaded
  metrics,                 \* ref metrics
  pendingMetrics,          \* the files whose 'await ensureEvaluationSummaryLoaded()' is suspended, oldest first
  shownFile,               \* ref selectedFile while scores are shown
  graphsDir,               \* the directory yfiles_graphs
  dirAtStart,              \* history: the directory when the script started
  dirEntries,              \* let entries: what is left of the readdir result
  renamed,                 \* let renamed
  report,                  \* the message logged after the loop (Null: still running)
  layoutGraph,             \* the graph handed to the custom layout: node count and edges
  positions,               \* const positions (by node index)
  temperature,             \* let temperature
  iteration,               \* let iteration
  layoutPc,                \* where applySimpleLayout is: call, loop or done
  listeners,               \* the listeners registered on the graph element and the document
  lifecycle,               \* the component: mounted or unmounted
  newNodes,                \* history: how many times 'Add node here' has run
  nodeColorMap,            \* const nodeColorMap
  paletteIndex,            \* let paletteIndex
  relationshipColorMap,    \* const relationshipColorMap
  relationshipPaletteIndex,\* let relationshipPaletteIndex
  lastColor,               \* history: the last colour lookup and what it returned
  seenGroups,              \* history: the identifiers looked up since resetNodeColors, trimmed and lower-cased, by first lookup
  seenRelationships        \* history: likewise since resetRelationshipColors

manifestVars == << dataModules, schemaModules, manifestEntries, initialFile >>

metricsVars == << evaluationSummaryCsvRaw, evaluationSummary, evaluationSummaryLoaded,
                 metrics, pendingMetrics, shownFile >>

renameVars == << graphsDir, dirAtStart, dirEntries, renamed, report >>

layoutVars == << layoutGraph, positions, temperature, iteration, layoutPc >>

domVars == << listeners, lifecycle >>

addVars == << newNodes >>

colorVars == << nodeColorMap, paletteIndex, relationshipColorMap, relationshipPaletteIndex,
               lastColor, seenGroups, seenRelationships >>

extVars == << manifestVars, metricsVars, renameVars, layoutVars, domVars, addVars,
             colorVars >>

vars == << uiVars, pureVars, extVars >>

(***************************************************************************)
(* Filter state per dataset.                                               *)
(***************************************************************************)
DefaultFilterSettings ==
  [filterMode |-> "highlight", nodeFilter |-> Null, relFilter |-> Null]

NoFilterEntry == [has |-> FALSE, value |-> DefaultFilterSettings]

\* filterSettingsByFile.set(file, {...}); a falsy file is ignored.
saveFilterSettingsFor(map, file, mode, nodeFilter, relFilter) ==
  IF file = Null THEN map
  ELSE [map EXCEPT ![file] =
          [has |-> TRUE,
           value |-> [filterMode |-> mode, nodeFilter |-> nodeFilter,
                      relFilter |-> relFilter]]]

\* ensureFilterSettingsFor(file): the live filter state it leaves.
ensureFilterSettingsFor(map, file, live) ==
  IF file = Null THEN live
  ELSE IF map[file].has THEN map[file].value
  ELSE DefaultFilterSettings

(***************************************************************************)
(* View settings per dataset (scales in tenths).                           *)
(***************************************************************************)
DefaultViewSettings == [nodeScale |-> 10, edgeLenScale |-> 10, clusterGapScale |-> 12]

NoViewEntry == [has |-> FALSE, value |-> DefaultViewSettings]

\* ensureSettingsFor(file): the map after the default entry is inserted.
ensureSettingsMap(map, file) ==
  IF file = Null \/ map[file].has THEN map
  ELSE [map EXCEPT ![file] = [has |-> TRUE, value |-> DefaultViewSettings]]

\* ensureSettingsFor(file): the live settings it leaves.
ensureSettingsLive(map, file, live) ==
  IF file = Null THEN live ELSE ensureSettingsMap(map, file)[file].value

\* A plausible slip: one shared settings object for every dataset.
saveSettingsShared(map, file, live) ==
  [f \in DOMAIN map |-> [has |-> TRUE, value |-> live]]

\* saveSettingsForCurrent(): settingsByFile.set(selectedFile.value, {...}).
saveSettingsFor(map, file, live) ==
  IF file = Null THEN map
  ELSE [map EXCEPT ![file] = [has |-> TRUE, value |-> live]]

LiveFilters == [filterMode |-> filterMode, nodeFilter |-> activeNodeLabelFilter,
                relFilter |-> activeRelTypeFilter]

LiveView == [nodeScale |-> nodeScale, edgeLenScale |-> edgeLenScale,
             clusterGapScale |-> clusterGapScale]

(***************************************************************************)
(* Graph statistics and filter highlighting.                               *)
(***************************************************************************)
\* A JavaScript string used as a condition.
Truthy(s) == s # Null /\ s # ""

\* applyFilterHighlight: (tag.type ?? tag.label ?? tag.id ?? '').toString()
NodeGroup(tag) == Coalesce(tag.type, Coalesce(tag.label, tag.id))

\* applyFilterHighlight: (etag.relationship ?? etag.label ?? '').trim()
EdgeType(etag) == Trim(Coalesce(etag.relationship, Coalesce(etag.label, "")))

\* computeGraphStats: (type ?? label ?? id).toString().trim() || node.id
StatsGroup(tag) ==
  LET g == Trim(Coalesce(tag.type, Coalesce(tag.label, tag.id)))
  IN IF Truthy(g) THEN g ELSE tag.id

\* computeGraphStats: (relationship ?? label ?? 'RELATIONSHIP').trim() || 'RELATIONSHIP'
StatsType(etag) ==
  LET t == Trim(Coalesce(etag.relationship, Coalesce(etag.label, "RELATIONSHIP")))
  IN IF Truthy(t) THEN t ELSE "RELATIONSHIP"

computeGraphStats(nodes, edges) ==
  [nodeCount |-> Cardinality(nodes),
   edgeCount |-> Cardinality(edges),
   nodeLabels |-> {StatsGroup(n) : n \in nodes},
   relationshipTypes |-> {StatsType(e) : e \in edges}]

EmptyGraph == [nodes |-> {}, edges |-> {}]

NodeMatches(tag, nodeFilter) == IF Truthy(nodeFilter) THEN NodeGroup(tag) = nodeFilter ELSE TRUE
EdgeMatches(etag, relFilter) == IF Truthy(relFilter) THEN EdgeType(etag) = relFilter ELSE TRUE

\* A plausible slip: the unmatched filters are found but left in place.
applyFilterHighlightKeep(g, nodeFilter, relFilter, mode, depth) ==
  [nodeFilter |-> nodeFilter, relFilter |-> relFilter, depth |-> depth]

\* applyFilterHighlight(): the filters it leaves and how deep it recursed.
RECURSIVE applyFilterHighlight(_, _, _, _, _)
applyFilterHighlight(g, nodeFilter, relFilter, mode, depth) ==
  LET doFilter == mode = "filter"
      nodeMatchesCount == Cardinality({n \in g.nodes : NodeMatches(n, nodeFilter)})
      edgeMatchesCount == Cardinality({e \in g.edges : EdgeMatches(e, relFilter)})
      clearNode == Truthy(nodeFilter) /\ nodeMatchesCount = 0
      clearRel == Truthy(relFilter) /\ edgeMatchesCount = 0
      changed == clearNode \/ clearRel
  IN IF (doFilter \/ Truthy(nodeFilter) \/ Truthy(relFilter)) /\ changed
     THEN applyFilterHighlight(g,
            IF clearNode THEN Null ELSE nodeFilter,
            IF clearRel THEN Null ELSE relFilter, mode, depth + 1)
     ELSE [nodeFilter |-> nodeFilter, relFilter |-> relFilter, depth |-> depth]

\* updateStatsFromGraph(): the statistics and the filters it leaves.
updateStatsFromGraph(g, nodeFilter, relFilter) ==
  LET stats == computeGraphStats(g.nodes, g.edges)
  IN [stats |-> stats,
      nodeFilter |-> IF Truthy(nodeFilter) /\ nodeFilter \notin stats.nodeLabels
                     THEN Null ELSE nodeFilter,
      relFilter |-> IF Truthy(relFilter) /\ relFilter \notin stats.relationshipTypes
                    THEN Null ELSE relFilter]

(***************************************************************************)
(* Clicked items and selection.                                            *)
(***************************************************************************)
\* The clickable items of a graph: nodes, edges, and the labels they own.
ItemsOf(g) ==
  {[kind |-> "node", node |-> n.id, edge |-> NoEdge] : n \in g.nodes} \cup
  {[kind |-> "nodeLabel", node |-> n.id, edge |-> NoEdge] : n \in g.nodes} \cup
  {[kind |-> "edge", node |-> Null, edge |-> e.id] : e \in g.edges} \cup
  {[kind |-> "edgeLabel", node |-> Null, edge |-> e.id] : e \in g.edges}

NoItem == [kind |-> "none", node |-> Null, edge |-> NoEdge]

\* resolveNodeFromItem: the item itself, or the owner of a label, when it is a node.
resolveNodeFromItem(item) ==
  IF item.kind \in {"node", "nodeLabel"} THEN item.node ELSE Null

\* resolveEdgeFromItem: the item itself, or the owner of a label, when it is an edge.
resolveEdgeFromItem(item) ==
  IF item.kind \in {"edge", "edgeLabel"} THEN item.edge ELSE NoEdge

NoSelection == [selectedNode |-> Null, selectedEdge |-> NoEdge,
                lastSelectedINode |-> Null, lastSelectedIEdge |-> NoEdge]

\* A plausible slip: the previous selection is not cleared first.
applySelectionNoReset(item, old) ==
  IF resolveNodeFromItem(item) # Null
  THEN [old EXCEPT !.selectedNode = resolveNodeFromItem(item),
                   !.lastSelectedINode = resolveNodeFromItem(item)]
  ELSE IF resolveEdgeFromItem(item) # NoEdge
  THEN [old EXCEPT !.selectedEdge = resolveEdgeFromItem(item),
                   !.lastSelectedIEdge = resolveEdgeFromItem(item)]
  ELSE old

\* applySelection(item): the four selection variables it leaves (the tag of a
\* node or edge is referred to by the id of its owner).
applySelection(item, old) ==
  IF item = NoItem THEN NoSelection
  ELSE IF resolveNodeFromItem(item) # Null
  THEN [NoSelection EXCEPT !.selectedNode = resolveNodeFromItem(item),
                           !.lastSelectedINode = resolveNodeFromItem(item)]
  ELSE IF resolveEdgeFromItem(item) # NoEdge
  THEN [NoSelection EXCEPT !.selectedEdge = resolveEdgeFromItem(item),
                           !.lastSelectedIEdge = resolveEdgeFromItem(item)]
  ELSE NoSelection

Selection == [selectedNode |-> selectedNode, selectedEdge |-> selectedEdge,
              lastSelectedINode |-> lastSelectedINode,
              lastSelectedIEdge |-> lastSelectedIEdge]

\* getSelectedIEdge(): the remembered IEdge if still in the graph, else the edge
\* whose tag is the selected one, else none.
getSelectedIEdge(g, sel) ==
  IF sel.lastSelectedIEdge # NoEdge /\ \E e \in g.edges : e.id = sel.lastSelectedIEdge
  THEN sel.lastSelectedIEdge
  ELSE IF sel.selectedEdge # NoEdge /\ \E e \in g.edges : e.id = sel.selectedEdge
  THEN sel.selectedEdge
  ELSE NoEdge

Status(text, arg) == [text |-> text, arg |-> arg]

\* History: an event of the input mode (or the Escape key) and its item.
Event(op, item) == [op |-> op, item |-> item]
NoEvent == Event("none", NoItem)

(***************************************************************************)
(* The state after construction and onMounted: the default file is         *)
(* selected and its loadGraph() is suspended at its first await.           *)
(***************************************************************************)
\* resolveDefaultFile(manifestEntries): the first 'data' entry.
DefaultFile == "fA"

\* Everything but the view settings.
InitUIOther ==
  /\ selectedFile = DefaultFile
  /\ lastLoadedFile = Null
  /\ filterMode = "highlight"
  /\ activeNodeLabelFilter = Null
  /\ activeRelTypeFilter = Null
  /\ filterSettingsByFile = [f \in Files |-> NoFilterEntry]
  /\ graph = EmptyGraph
  /\ graphStats = computeGraphStats({}, {})
  /\ selectedNode = Null
  /\ selectedEdge = NoEdge
  /\ lastSelectedINode = Null
  /\ lastSelectedIEdge = NoEdge
  /\ edgeCreateActive = FALSE
  /\ edgeCreateSource = Null
  /\ statusMessage = Status("Ready", Null)
  /\ loads = << [file |-> DefaultFile, pc |-> "begin"] >>
  /\ newEdges = 0
  /\ toolbarClicks = 0
  /\ filtersInEffect = [f \in Files |->
                          IF f = DefaultFile
                          THEN [has |-> TRUE, value |-> DefaultFilterSettings]
                          ELSE NoFilterEntry]
  /\ afhRun = [depth |-> 0, final |-> FALSE]
  /\ lastEvent = NoEvent

InitUI ==
  /\ InitUIOther
  /\ nodeScale = 10
  /\ edgeLenScale = 10
  /\ clusterGapScale = 12
  /\ settingsByFile = [f \in Files |-> NoViewEntry]
  /\ viewLastSet = [f \in Files |-> NoViewEntry]

(***************************************************************************)
(* Fragments shared by the handlers.                                       *)
(***************************************************************************)
SetSelection(sel) ==
  /\ selectedNode' = sel.selectedNode
  /\ selectedEdge' = sel.selectedEdge
  /\ lastSelectedINode' = sel.lastSelectedINode
  /\ lastSelectedIEdge' = sel.lastSelectedIEdge

SetView(v) ==
  /\ nodeScale' = v.nodeScale
  /\ edgeLenScale' = v.edgeLenScale
  /\ clusterGapScale' = v.clusterGapScale

SetFilters(f) ==
  /\ filterMode' = f.filterMode
  /\ activeNodeLabelFilter' = f.nodeFilter
  /\ activeRelTypeFilter' = f.relFilter

\* History: the filter state in effect for the file selected after the step.
TrackFilters ==
  filtersInEffect' =
    [filtersInEffect EXCEPT ![selectedFile'] = [has |-> TRUE, value |-> LiveFilters']]

selVars == << selectedNode, selectedEdge, lastSelectedINode, lastSelectedIEdge >>
viewVars == << nodeScale, edgeLenScale, clusterGapScale >>
flowVars == << edgeCreateActive, edgeCreateSource >>

\* A plausible slip: the flag is reset but the source node is kept.
resetEdgeCreateStateKeepSource ==
  /\ edgeCreateActive' = FALSE
  /\ edgeCreateSource' = edgeCreateSource

\* resetEdgeCreateState()
resetEdgeCreateState ==
  /\ edgeCreateActive' = FALSE
  /\ edgeCreateSource' = Null

\* applySelection(item) on graph g: the selection, then applyFilterHighlight().
ApplySelectionStep(item, g) ==
  LET r == applyFilterHighlight(g, activeNodeLabelFilter, activeRelTypeFilter,
                                filterMode, 1)
  IN /\ SetSelection(applySelection(item, Selection))
     /\ activeNodeLabelFilter' = r.nodeFilter
     /\ activeRelTypeFilter' = r.relFilter
     /\ afhRun' = [depth |-> r.depth, final |-> TRUE]

(***************************************************************************)
(* Dataset switching and loading.                                          *)
(***************************************************************************)
\* The <select> sets selectedFile and watch(selectedFile) runs: it saves the
\* live filters under selectedFile.value (already the new file), restores the
\* view and filter settings of the new file and starts its loadGraph().
SelectFileAmong(file, most) ==
  /\ file \in Files
  /\ file # selectedFile
  /\ Len(loads) < most
  /\ selectedFile' = file
  /\ LET saved == IF lastLoadedFile # Null
                  THEN saveFilterSettingsFor(filterSettingsByFile, file, filterMode,
                         activeNodeLabelFilter, activeRelTypeFilter)
                  ELSE filterSettingsByFile
     IN /\ filterSettingsByFile' = saved
        /\ SetFilters(ensureFilterSettingsFor(saved, file, LiveFilters))
  /\ settingsByFile' = ensureSettingsMap(settingsByFile, file)
  /\ SetView(ensureSettingsLive(settingsByFile, file, LiveView))
  /\ loads' = Append(loads, [file |-> file, pc |-> "begin"])
  /\ afhRun' = [depth |-> 0, final |-> FALSE]
  /\ TrackFilters
  /\ lastEvent' = NoEvent
  /\ UNCHANGED << pureVars, extVars >>
  /\ UNCHANGED << lastLoadedFile, graph, graphStats, selVars, flowVars,
                  statusMessage, newEdges, toolbarClicks, viewLastSet >>

\* A dataset is selected while no more than MaxLoads - 1 loads are suspended.
SelectFile(file) == SelectFileAmong(file, MaxLoads)

\* A dataset is selected while loadGraph() calls are suspended at an await,
\* MaxLoads of them at most.
SelectFileWhileLoading(file) ==
  /\ loads # << >>
  /\ SelectFileAmong(file, MaxLoads + 1)

RemoveAt(seq, i) == [k \in 1..(Len(seq) - 1) |-> IF k < i THEN seq[k] ELSE seq[k + 1]]

\* loadGraph(file) resumes after `await layoutBridgePromise`.
LoadBegin(i) ==
  /\ i \in DOMAIN loads
  /\ loads[i].pc = "begin"
  /\ statusMessage' = Status("Loading", loads[i].file)
  /\ loads' = [loads EXCEPT ![i].pc = "data"]
  /\ afhRun' = [depth |-> 0, final |-> FALSE]
  /\ UNCHANGED << selectedFile, lastLoadedFile, filterMode, activeNodeLabelFilter,
                  activeRelTypeFilter, filterSettingsByFile, viewVars,
                  settingsByFile, graph, graphStats, selVars, flowVars, newEdges,
                  toolbarClicks, filtersInEffect, viewLastSet >>
  /\ lastEvent' = NoEvent
  /\ UNCHANGED << pureVars, extVars >>

\* loadGraph(file) resumes after `await resolveGraphData(file)`: graph.clear(),
\* applySelection(null) on the emptied graph, the statistics,
\* ensureSettingsFor(file) and builder.buildGraph().  A node kept in
\* edgeCreateSource is no longer part of the graph.
LoadBuild(i) ==
  /\ i \in DOMAIN loads
  /\ loads[i].pc = "data"
  /\ LET file == loads[i].file
         r == applyFilterHighlight(EmptyGraph, activeNodeLabelFilter,
                                   activeRelTypeFilter, filterMode, 1)
     IN /\ SetSelection(applySelection(NoItem, Selection))
        /\ activeNodeLabelFilter' = r.nodeFilter
        /\ activeRelTypeFilter' = r.relFilter
        /\ afhRun' = [depth |-> r.depth, final |-> FALSE]
        /\ graphStats' = computeGraphStats(NodesOf(file), EdgesOf(file))
        /\ settingsByFile' = ensureSettingsMap(settingsByFile, file)
        /\ SetView(ensureSettingsLive(settingsByFile, file, LiveView))
        /\ graph' = [nodes |-> NodesOf(file), edges |-> EdgesOf(file)]
  /\ edgeCreateSource' = IF edgeCreateSource # Null THEN Stale ELSE Null
  /\ loads' = [loads EXCEPT ![i].pc = "layout"]
  /\ UNCHANGED << selectedFile, lastLoadedFile, filterMode, filterSettingsByFile,
                  edgeCreateActive, statusMessage, newEdges, toolbarClicks,
                  viewLastSet >>
  /\ TrackFilters
  /\ lastEvent' = NoEvent
  /\ UNCHANGED << pureVars, extVars >>

\* loadGraph(file) resumes after the layout awaits: the status message,
\* applyFilterHighlight() and lastLoadedFile = file.
LoadFinish(i) ==
  /\ i \in DOMAIN loads
  /\ loads[i].pc = "layout"
  /\ LET file == loads[i].file
         r == applyFilterHighlight(graph, activeNodeLabelFilter,
                                   activeRelTypeFilter, filterMode, 1)
     IN /\ statusMessage' = Status("Loaded", file)
        /\ activeNodeLabelFilter' = r.nodeFilter
        /\ activeRelTypeFilter' = r.relFilter
        /\ afhRun' = [depth |-> r.depth, final |-> TRUE]
        /\ lastLoadedFile' = file
  /\ loads' = RemoveAt(loads, i)
  /\ UNCHANGED << selectedFile, filterMode, filterSettingsByFile, viewVars,
                  settingsByFile, graph, graphStats, selVars, flowVars, newEdges,
                  toolbarClicks, viewLastSet >>
  /\ TrackFilters
  /\ lastEvent' = NoEvent
  /\ UNCHANGED << pureVars, extVars >>

(***************************************************************************)
(* Filter chips and filter mode.                                           *)
(***************************************************************************)
\* onNodeLabelChip(label), for a chip of the node-label list.
OnNodeLabelChip(label) ==
  /\ label \in graphStats.nodeLabels
  /\ LET toggled == IF activeNodeLabelFilter = label THEN Null ELSE label
         r == applyFilterHighlight(graph, toggled, activeRelTypeFilter, filterMode, 1)
     IN /\ activeNodeLabelFilter' = r.nodeFilter
        /\ activeRelTypeFilter' = r.relFilter
        /\ afhRun' = [depth |-> r.depth, final |-> TRUE]
        /\ filterSettingsByFile' =
             saveFilterSettingsFor(filterSettingsByFile, selectedFile, filterMode,
                                   r.nodeFilter, r.relFilter)
  /\ UNCHANGED << selectedFile, lastLoadedFile, filterMode, viewVars, settingsByFile,
                  graph, graphStats, selVars, flowVars, statusMessage, loads,
                  newEdges, toolbarClicks, viewLastSet >>
  /\ TrackFilters
  /\ lastEvent' = NoEvent
  /\ UNCHANGED << pureVars, extVars >>

\* onRelChip(label), for a chip of the relationship list.
OnRelChip(label) ==
  /\ label \in graphStats.relationshipTypes
  /\ LET toggled == IF activeRelTypeFilter = label THEN Null ELSE label
         r == applyFilterHighlight(graph, activeNodeLabelFilter, toggled, filterMode, 1)
     IN /\ activeNodeLabelFilter' = r.nodeFilter
        /\ activeRelTypeFilter' = r.relFilter
        /\ afhRun' = [depth |-> r.depth, final |-> TRUE]
        /\ filterSettingsByFile' =
             saveFilterSettingsFor(filterSettingsByFile, selectedFile, filterMode,
                                   r.nodeFilter, r.relFilter)
  /\ UNCHANGED << selectedFile, lastLoadedFile, filterMode, viewVars, settingsByFile,
                  graph, graphStats, selVars, flowVars, statusMessage, loads,
                  newEdges, toolbarClicks, viewLastSet >>
  /\ TrackFilters
  /\ lastEvent' = NoEvent
  /\ UNCHANGED << pureVars, extVars >>

\* clearFilters()
ClearFilters ==
  /\ LET r == applyFilterHighlight(graph, Null, Null, filterMode, 1)
     IN /\ activeNodeLabelFilter' = r.nodeFilter
        /\ activeRelTypeFilter' = r.relFilter
        /\ afhRun' = [depth |-> r.depth, final |-> TRUE]
        /\ filterSettingsByFile' =
             saveFilterSettingsFor(filterSettingsByFile, selectedFile, filterMode,
                                   r.nodeFilter, r.relFilter)
  /\ UNCHANGED << selectedFile, lastLoadedFile, filterMode, viewVars, settingsByFile,
                  graph, graphStats, selVars, flowVars, statusMessage, loads,
                  newEdges, toolbarClicks, viewLastSet >>
  /\ TrackFilters
  /\ lastEvent' = NoEvent
  /\ UNCHANGED << pureVars, extVars >>

\* The Highlight / Filter radio buttons (v-model="filterMode").
SetFilterMode(mode) ==
  /\ mode \in {"highlight", "filter"}
  /\ mode # filterMode
  /\ filterMode' = mode
  /\ afhRun' = [depth |-> 0, final |-> FALSE]
  /\ UNCHANGED << selectedFile, lastLoadedFile, activeNodeLabelFilter,
                  activeRelTypeFilter, filterSettingsByFile, viewVars,
                  settingsByFile, graph, graphStats, selVars, flowVars,
                  statusMessage, loads, newEdges, toolbarClicks, viewLastSet >>
  /\ TrackFilters
  /\ lastEvent' = NoEvent
  /\ UNCHANGED << pureVars, extVars >>

(***************************************************************************)
(* Clicks, keys and the context menu.                                      *)
(***************************************************************************)
\* The edge 'Add edge' creates: { relationship: '', color } from source to node.
NewEdge(k, source, node) ==
  [id |-> 100 + k, src |-> source, tgt |-> node, relationship |-> "", label |-> Null]

\* item-clicked while edge creation is active.
ItemClickedInFlow(item) ==
  LET node == resolveNodeFromItem(item)
  IN IF node = Null
     THEN \* not a node: cancel, then select the clicked item
          /\ resetEdgeCreateState
          /\ statusMessage' = Status("Edge creation cancelled", Null)
          /\ ApplySelectionStep(item, graph)
          /\ UNCHANGED << selectedFile, lastLoadedFile, filterMode,
                          filterSettingsByFile, viewVars, settingsByFile, graph,
                          graphStats, loads, newEdges, toolbarClicks, viewLastSet >>
     ELSE IF edgeCreateSource = Null
     THEN \* first node: the source
          /\ edgeCreateSource' = node
          /\ statusMessage' = Status("Edge: select target node", Null)
          /\ afhRun' = [depth |-> 0, final |-> FALSE]
          /\ UNCHANGED << selectedFile, lastLoadedFile, filterMode,
                          activeNodeLabelFilter, activeRelTypeFilter,
                          filterSettingsByFile, viewVars, settingsByFile, graph,
                          graphStats, selVars, edgeCreateActive, loads, newEdges,
                          toolbarClicks, viewLastSet >>
     ELSE IF edgeCreateSource # node /\ edgeCreateSource # Stale
     THEN \* second node: graph.createEdge, updateStatsFromGraph(), reset
          LET g == [graph EXCEPT !.edges = @ \cup {NewEdge(newEdges + 1, edgeCreateSource, node)}]
              u == updateStatsFromGraph(g, activeNodeLabelFilter, activeRelTypeFilter)
          IN /\ graph' = g
             /\ graphStats' = u.stats
             /\ activeNodeLabelFilter' = u.nodeFilter
             /\ activeRelTypeFilter' = u.relFilter
             /\ statusMessage' = Status("Edge created", Null)
             /\ resetEdgeCreateState
             /\ newEdges' = newEdges + 1
             /\ afhRun' = [depth |-> 0, final |-> FALSE]
             /\ UNCHANGED << selectedFile, lastLoadedFile, filterMode,
                             filterSettingsByFile, viewVars, settingsByFile,
                             selVars, loads, toolbarClicks, viewLastSet >>
     ELSE \* the source again: nothing; a source that graph.clear() removed:
          \* graph.createEdge rejects it and the listener ends there
          /\ afhRun' = [depth |-> 0, final |-> FALSE]
          /\ UNCHANGED << selectedFile, lastLoadedFile, filterMode,
                          activeNodeLabelFilter, activeRelTypeFilter,
                          filterSettingsByFile, viewVars, settingsByFile, graph,
                          graphStats, selVars, flowVars, statusMessage, loads,
                          newEdges, toolbarClicks, viewLastSet >>

\* The item-clicked listener of the input mode.
ItemClicked(item) ==
  /\ item \in ItemsOf(graph)
  /\ IF edgeCreateActive
     THEN ItemClickedInFlow(item)
     ELSE /\ ApplySelectionStep(item, graph)
          /\ UNCHANGED << selectedFile, lastLoadedFile, filterMode,
                          filterSettingsByFile, viewVars, settingsByFile, graph,
                          graphStats, flowVars, statusMessage, loads, newEdges,
                          toolbarClicks, viewLastSet >>
  /\ TrackFilters
  /\ lastEvent' = Event("itemClicked", item)
  /\ UNCHANGED << pureVars, extVars >>

\* The canvas-clicked listener of the input mode.
CanvasClicked ==
  /\ IF edgeCreateActive
     THEN /\ resetEdgeCreateState
          /\ statusMessage' = Status("Edge creation cancelled", Null)
     ELSE UNCHANGED << flowVars, statusMessage >>
  /\ ApplySelectionStep(NoItem, graph)
  /\ UNCHANGED << selectedFile, lastLoadedFile, filterMode, filterSettingsByFile,
                  viewVars, settingsByFile, graph, graphStats, loads, newEdges,
                  toolbarClicks, viewLastSet >>
  /\ TrackFilters
  /\ lastEvent' = Event("canvasClicked", NoItem)
  /\ UNCHANGED << pureVars, extVars >>

\* onKey with e.key === 'Escape'.
EscapeKey ==
  /\ IF edgeCreateActive
     THEN /\ resetEdgeCreateState
          /\ statusMessage' = Status("Edge creation cancelled", Null)
     ELSE UNCHANGED << flowVars, statusMessage >>
  /\ afhRun' = [depth |-> 0, final |-> FALSE]
  /\ UNCHANGED << selectedFile, lastLoadedFile, filterMode, activeNodeLabelFilter,
                  activeRelTypeFilter, filterSettingsByFile, viewVars,
                  settingsByFile, graph, graphStats, selVars, loads, newEdges,
                  toolbarClicks, viewLastSet >>
  /\ TrackFilters
  /\ lastEvent' = Event("escape", NoItem)
  /\ UNCHANGED << pureVars, extVars >>

\* The close button of the detail overlay: applySelection(null).
CloseOverlay ==
  /\ selectedNode # Null \/ selectedEdge # NoEdge
  /\ ApplySelectionStep(NoItem, graph)
  /\ UNCHANGED << selectedFile, lastLoadedFile, filterMode, filterSettingsByFile,
                  viewVars, settingsByFile, graph, graphStats, flowVars,
                  statusMessage, loads, newEdges, toolbarClicks, viewLastSet >>
  /\ TrackFilters
  /\ lastEvent' = NoEvent
  /\ UNCHANGED << pureVars, extVars >>

\* onStartAddEdge(), from the context menu.
OnStartAddEdge ==
  /\ newEdges < MaxNewEdges
  /\ edgeCreateActive' = TRUE
  /\ IF lastSelectedINode # Null
     THEN /\ edgeCreateSource' = lastSelectedINode
          /\ statusMessage' = Status("Edge: select target node", Null)
     ELSE /\ edgeCreateSource' = Null
          /\ statusMessage' = Status("Edge: select source node", Null)
  /\ afhRun' = [depth |-> 0, final |-> FALSE]
  /\ UNCHANGED << selectedFile, lastLoadedFile, filterMode, activeNodeLabelFilter,
                  activeRelTypeFilter, filterSettingsByFile, viewVars,
                  settingsByFile, graph, graphStats, selVars, loads, newEdges,
                  toolbarClicks, viewLastSet >>
  /\ TrackFilters
  /\ lastEvent' = NoEvent
  /\ UNCHANGED << pureVars, extVars >>

\* onDeleteSelectedEdge(), offered by the context menu while an edge is selected.
OnDeleteSelectedEdge ==
  /\ selectedEdge # NoEdge
  /\ LET edge == getSelectedIEdge(graph, Selection)
     IN /\ edge # NoEdge
        /\ LET g == [graph EXCEPT !.edges = {e \in @ : e.id # edge}]
               u == updateStatsFromGraph(g, activeNodeLabelFilter, activeRelTypeFilter)
           IN /\ graph' = g
              /\ graphStats' = u.stats
              /\ activeNodeLabelFilter' = u.nodeFilter
              /\ activeRelTypeFilter' = u.relFilter
  /\ selectedEdge' = NoEdge
  /\ lastSelectedIEdge' = NoEdge
  /\ statusMessage' = Status("Edge deleted", Null)
  /\ afhRun' = [depth |-> 0, final |-> FALSE]
  /\ UNCHANGED << selectedFile, lastLoadedFile, filterMode, filterSettingsByFile,
                  viewVars, settingsByFile, selectedNode, lastSelectedINode,
                  flowVars, loads, newEdges, toolbarClicks, viewLastSet >>
  /\ TrackFilters
  /\ lastEvent' = NoEvent
  /\ UNCHANGED << pureVars, extVars >>

\* onSearchEdges() with a query that some relationship contains: the first
\* such edge is selected.
OnSearchEdges(edge) ==
  /\ edge \in graph.edges
  /\ Coalesce(edge.relationship, Coalesce(edge.label, "")) # ""
  /\ ApplySelectionStep([kind |-> "edge", node |-> Null, edge |-> edge.id], graph)
  /\ statusMessage' = Status("Found relationship",
                             Coalesce(edge.relationship, Coalesce(edge.label, "")))
  /\ UNCHANGED << selectedFile, lastLoadedFile, filterMode, filterSettingsByFile,
                  viewVars, settingsByFile, graph, graphStats, flowVars, loads,
                  newEdges, toolbarClicks, viewLastSet >>
  /\ TrackFilters
  /\ lastEvent' = NoEvent
  /\ UNCHANGED << pureVars, extVars >>

(***************************************************************************)
(* Toolbar: the six scale buttons.  Each handler changes one live scale,   *)
(* clamps it, and stores the three live scales under selectedFile.value.   *)
(***************************************************************************)
EdgeLenScaleMin == 6
EdgeLenScaleMax == 16
ClusterGapScaleMin == 0
ClusterGapScaleMax == 30
NodeScaleMin == 6
NodeScaleMax == 25

Max2(a, b) == IF a >= b THEN a ELSE b
Min2(a, b) == IF a <= b THEN a ELSE b

\* The part of a toolbar handler before its first await, given the live
\* scales it computed.
ToolbarClick(live) ==
  /\ toolbarClicks < MaxToolbarClicks
  /\ toolbarClicks' = toolbarClicks + 1
  /\ SetView(live)
  /\ settingsByFile' = saveSettingsFor(settingsByFile, selectedFile, live)
  /\ viewLastSet' = [viewLastSet EXCEPT ![selectedFile] = [has |-> TRUE, value |-> live]]
  /\ afhRun' = [depth |-> 0, final |-> FALSE]
  /\ UNCHANGED << selectedFile, lastLoadedFile, filterMode, activeNodeLabelFilter,
                  activeRelTypeFilter, filterSettingsByFile, graph, graphStats,
                  selVars, flowVars, statusMessage, loads, newEdges >>
  /\ TrackFilters
  /\ lastEvent' = NoEvent
  /\ UNCHANGED << pureVars, extVars >>

OnEdgeLenShorter ==
  ToolbarClick([LiveView EXCEPT !.edgeLenScale = Max2(EdgeLenScaleMin, edgeLenScale - 1)])

OnEdgeLenLonger ==
  ToolbarClick([LiveView EXCEPT !.edgeLenScale = Min2(EdgeLenScaleMax, edgeLenScale + 1)])

OnClusterCloser ==
  ToolbarClick([LiveView EXCEPT !.clusterGapScale = Max2(ClusterGapScaleMin, clusterGapScale - 1)])

OnClusterWider ==
  ToolbarClick([LiveView EXCEPT !.clusterGapScale = Min2(ClusterGapScaleMax, clusterGapScale + 1)])

\* 'Smaller nodes' without the Math.max.
OnNodeSmallerUnclamped ==
  ToolbarClick([LiveView EXCEPT !.nodeScale = nodeScale - 1])

OnNodeSmaller ==
  ToolbarClick([LiveView EXCEPT !.nodeScale = Max2(NodeScaleMin, nodeScale - 1)])

OnNodeLarger ==
  ToolbarClick([LiveView EXCEPT !.nodeScale = Min2(NodeScaleMax, nodeScale + 1)])

(***************************************************************************)
(* normalizeGraphPayload.  A JSON value is a record of its kind and its    *)
(* text; an object is a record of the keys the modelled payloads use, with *)
(* Undef for a key that is absent.  The modelled payloads carry no         *)
(* mappings, sourceId/targetId, *Type, edge_properties, Title, IATA or _id *)
(* keys and no Schedule type, so the branches on those keys are not taken. *)
(***************************************************************************)
Undef == [k |-> "undefined", s |-> ""]
Nil == [k |-> "null", s |-> ""]
Str(s) == [k |-> "string", s |-> s]
Num(s) == [k |-> "number", s |-> s]

\* v == null
IsNullish(v) == v.k \in {"undefined", "null"}
\* toStr(v)
ToStr(v) == IF IsNullish(v) THEN "" ELSE v.s
\* String(v)
JsString(v) == IF v.k = "undefined" THEN "undefined" ELSE IF v.k = "null" THEN "null" ELSE v.s
\* A value used as a condition.
TruthyValue(v) == ~IsNullish(v) /\ v.s # "" /\ v # Num("0")
\* a ?? b on values
CoalesceValue(a, b) == IF IsNullish(a) THEN b ELSE a

\* val.includes(':') for the strings of the modelled payloads.
HasColon(s) ==
  \E t \in {"Film", "Cinema", "Node"}, key \in {"1", "2", "3", "5", "7", "8", "9"} :
    s = t \o ":" \o key

\* A node object and an edge object with every modelled key absent.
NoKeysNode == [id |-> Undef, ID |-> Undef, hasFilmID |-> FALSE, Film_ID |-> Undef,
               name |-> Undef, label |-> Undef, type |-> Undef]
NoKeysEdge == [source |-> Undef, target |-> Undef, from |-> Undef, to |-> Undef,
               fromType |-> Undef, toType |-> Undef,
               source_value |-> Undef, target_value |-> Undef,
               relationship |-> Undef, label |-> Undef]

\* isCanonicalNodeArray
isCanonicalNodeArray(raw) ==
  /\ raw.nodesKind = "array"
  /\ \A i \in DOMAIN raw.nodesArray : raw.nodesArray[i].id.k = "string"

\* A plausible slip: only source/target are accepted, not from/to.
isCanonicalEdgeArraySourceTarget(raw) ==
  \A i \in DOMAIN raw.edges :
    raw.edges[i].source.k = "string" /\ raw.edges[i].target.k = "string"

\* isCanonicalEdgeArray
isCanonicalEdgeArray(raw) ==
  \A i \in DOMAIN raw.edges :
    /\ raw.edges[i].source.k = "string" \/ raw.edges[i].from.k = "string"
    /\ raw.edges[i].target.k = "string" \/ raw.edges[i].to.k = "string"

\* Case A: toStr(preferKeys(n, ['type', ..., 'label', 'Label'])) || 'Node'
caseAType(n) ==
  LET t == ToStr(CoalesceValue(n.type, n.label))
  IN IF t # "" THEN t ELSE "Node"

\* Case A: findIdKey(n, type).value -- 'id' or 'ID' when the key is present,
\* else the type-specific key, else any key that ends with id (Film_ID).
caseAIdValRaw(n) ==
  IF n.id.k # "undefined" THEN n.id
  ELSE IF n.ID.k # "undefined" THEN n.ID
  ELSE IF n.hasFilmID THEN n.Film_ID
  ELSE Nil

\* Case A: idValRaw != null ? toStr(idValRaw) : String(idx)
caseAIdKey(n, idx) ==
  IF ~IsNullish(caseAIdValRaw(n)) THEN ToStr(caseAIdValRaw(n)) ELSE ToString(idx)

caseAGlobalId(n, idx) == caseAType(n) \o ":" \o caseAIdKey(n, idx)

\* Case A: nodes.push({ ...n, id: globalId, label, type })
caseANode(n, idx) ==
  LET type == caseAType(n)
      idKey == caseAIdKey(n, idx)
      named == ToStr(CoalesceValue(n.name, n.label))
      label == IF named # "" THEN named ELSE type \o " " \o idKey
  IN [n EXCEPT !.id = Str(type \o ":" \o idKey), !.label = Str(label), !.type = Str(type)]

\* Case A: typeToMap.get(t)?.get(val), Null when there is none.
caseATypeToMap(arr, t, val) ==
  IF \E i \in DOMAIN arr : caseAType(arr[i]) = t /\ caseAIdKey(arr[i], i) = val
  THEN t \o ":" \o val ELSE Null

\* Case A: plainMap.get(val): the global id of the first node with that id key.
caseAPlainMap(arr, val) ==
  LET hits == {i \in DOMAIN arr : caseAIdKey(arr[i], i) = val}
  IN IF hits = {} THEN Null
     ELSE caseAGlobalId(arr[CHOOSE i \in hits : \A j \in hits : i <= j],
                        CHOOSE i \in hits : \A j \in hits : i <= j)

\* Case A: hasConflict.has(val)
caseAHasConflict(arr, val) ==
  \E i \in DOMAIN arr :
    caseAIdKey(arr[i], i) = val /\ caseAGlobalId(arr[i], i) # caseAPlainMap(arr, val)

\* Case A: resolveRef(val, t) for a string or a number (Null otherwise).
resolveRef(arr, val, t) ==
  IF val.k \notin {"string", "number"} THEN Null
  ELSE IF val.k = "string" /\ HasColon(val.s) THEN val.s
  ELSE IF TruthyValue(t) /\ caseATypeToMap(arr, JsString(t), val.s) # Null
  THEN caseATypeToMap(arr, JsString(t), val.s)
  ELSE IF ~caseAHasConflict(arr, val.s) /\ caseAPlainMap(arr, val.s) # Null
  THEN caseAPlainMap(arr, val.s)
  ELSE Null

\* Case A: the edge built for e, or NoKeysEdge when from or to stays
\* unresolved.  idToGlobal stays empty: a node with a non-null id has that id as
\* its id key.
caseAEdge(arr, e) ==
  LET rel == ToStr(CoalesceValue(e.relationship, e.label))
      or(a, b) == IF a # Null THEN a ELSE b
      \* direct from/to
      from1 == IF ~IsNullish(e.from) THEN resolveRef(arr, e.from, e.fromType) ELSE Null
      to1 == IF ~IsNullish(e.to) THEN resolveRef(arr, e.to, e.toType) ELSE Null
      \* classic *_value with source/target types
      classic == /\ from1 = Null \/ to1 = Null
                 /\ ~IsNullish(e.source) /\ ~IsNullish(e.target)
                 /\ ~IsNullish(e.source_value) \/ ~IsNullish(e.target_value)
      from2 == IF classic THEN or(from1, resolveRef(arr, e.source_value, e.source)) ELSE from1
      to2 == IF classic THEN or(to1, resolveRef(arr, e.target_value, e.target)) ELSE to1
      \* direct source/target given as id
      direct == /\ from2 = Null \/ to2 = Null
                /\ ~IsNullish(e.source) /\ ~IsNullish(e.target)
      from3 == IF direct THEN or(from2, resolveRef(arr, e.source, Undef)) ELSE from2
      to3 == IF direct THEN or(to2, resolveRef(arr, e.target, Undef)) ELSE to2
      \* fallback: exact match against the plain map
      fbS == (from3 = Null \/ to3 = Null) /\ e.source.k \in {"string", "number"}
      from4 == IF fbS /\ from3 = Null /\ ~caseAHasConflict(arr, ToStr(e.source))
               THEN caseAPlainMap(arr, ToStr(e.source)) ELSE from3
      fbT == (from4 = Null \/ to3 = Null) /\ e.target.k \in {"string", "number"}
      to4 == IF fbT /\ to3 = Null /\ ~caseAHasConflict(arr, ToStr(e.target))
             THEN caseAPlainMap(arr, ToStr(e.target)) ELSE to3
  IN IF from4 # Null /\ to4 # Null
     THEN [NoKeysEdge EXCEPT !.from = Str(from4), !.to = Str(to4),
                             !.relationship = Str(rel), !.label = Str(rel)]
     ELSE NoKeysEdge

\* The edges an edge loop pushes, in order: build(e) is NoKeysEdge for an edge
\* that is skipped.
RECURSIVE pushEdges(_, _, _)
pushEdges(edgesRaw, built, k) ==
  IF k > Len(edgesRaw) THEN << >>
  ELSE (IF built[k] = NoKeysEdge THEN << >> ELSE << built[k] >>)
       \o pushEdges(edgesRaw, built, k + 1)

\* Nested case: the type-specific key of an item (Film_ID for type Film).
nestedHasSpecKey(type, n) == n.hasFilmID /\ type = "Film"

\* Nested case: idVal = specKey ? n[specKey] : (n.id ?? n.ID ?? n._id)
nestedIdVal(type, n) ==
  IF nestedHasSpecKey(type, n) THEN n.Film_ID ELSE CoalesceValue(n.id, n.ID)

\* Nested case: edgeKey = idVal != null ? String(idVal) : String(idx)
nestedEdgeKey(type, n, idx) ==
  IF ~IsNullish(nestedIdVal(type, n)) THEN JsString(nestedIdVal(type, n)) ELSE ToString(idx)

\* Nested case: nodes.push({ ...n, id: globalId, label, type })
nestedNode(type, n, idx) ==
  LET edgeKey == nestedEdgeKey(type, n, idx)
      label == CoalesceValue(n.name, CoalesceValue(n.label, Str(type \o " " \o edgeKey)))
  IN [n EXCEPT !.id = Str(type \o ":" \o edgeKey), !.label = label, !.type = Str(type)]

\* Nested case: the nodes of the entries k.. of Object.entries(nodesRaw).
RECURSIVE nestedNodes(_, _)
nestedNodes(entries, k) ==
  IF k > Len(entries) THEN << >>
  ELSE [i \in 1..Len(entries[k].arr) |-> nestedNode(entries[k].type, entries[k].arr[i], i)]
       \o nestedNodes(entries, k + 1)

\* Nested case: refMap.get(type)?.get(key), Null when there is none.
refMapGet(entries, type, key) ==
  IF \E k \in DOMAIN entries : \E i \in DOMAIN entries[k].arr :
       entries[k].type = type /\ nestedEdgeKey(type, entries[k].arr[i], i) = key
  THEN type \o ":" \o key ELSE Null

\* Nested case: the edge pushed for e, or NoKeysEdge when it is skipped.
nestedEdge(entries, e) ==
  IF /\ TruthyValue(e.source) /\ TruthyValue(e.target)
     /\ e.source_value.k # "undefined" /\ e.target_value.k # "undefined"
  THEN LET fromId == refMapGet(entries, JsString(e.source), JsString(e.source_value))
           toId == refMapGet(entries, JsString(e.target), JsString(e.target_value))
           rel == CoalesceValue(e.relationship, CoalesceValue(e.label, Str("")))
       IN IF fromId # Null /\ toId # Null
          THEN [NoKeysEdge EXCEPT !.from = Str(fromId), !.to = Str(toId),
                                  !.relationship = rel, !.label = rel]
          ELSE NoKeysEdge
  ELSE IF /\ TruthyValue(e.from) \/ TruthyValue(e.source)
          /\ TruthyValue(e.to) \/ TruthyValue(e.target)
  THEN e
  ELSE NoKeysEdge

\* normalizeGraphPayload(raw)
normalizeGraphPayload(raw) ==
  IF isCanonicalNodeArray(raw) /\ isCanonicalEdgeArray(raw) THEN raw
  ELSE IF raw.nodesKind = "array"
  THEN [id |-> raw.id, nodesKind |-> "array",
        nodesArray |-> [i \in 1..Len(raw.nodesArray) |-> caseANode(raw.nodesArray[i], i)],
        nodesObject |-> << >>,
        edges |-> pushEdges(raw.edges,
                    [k \in 1..Len(raw.edges) |-> caseAEdge(raw.nodesArray, raw.edges[k])], 1)]
  ELSE [id |-> raw.id, nodesKind |-> "array",
        nodesArray |-> nestedNodes(raw.nodesObject, 1),
        nodesObject |-> << >>,
        edges |-> pushEdges(raw.edges,
                    [k \in 1..Len(raw.edges) |-> nestedEdge(raw.nodesObject, raw.edges[k])], 1)]

(***************************************************************************)
(* The payloads normalizeGraphPayload is applied to.                       *)
(***************************************************************************)
\* Longest node array of a modelled payload.
MaxItems == 2

RawItems ==
  {[NoKeysNode EXCEPT !.id = a, !.ID = b, !.hasFilmID = f.has, !.Film_ID = f.value] :
     a \in {Undef, Nil, Str("7"), Num("7")},
     b \in {Undef, Str("9")},
     f \in {[has |-> FALSE, value |-> Undef], [has |-> TRUE, value |-> Nil],
            [has |-> TRUE, value |-> Str("5")]}}

ItemArrays == UNION {[1..n -> RawItems] : n \in 1..MaxItems}

\* Edges that name their ends directly.
DirectEdges ==
  {[NoKeysEdge EXCEPT !.from = Str("7"), !.to = Str("7"), !.relationship = Str("SHOWS")],
   [NoKeysEdge EXCEPT !.source = Str("7"), !.target = Str("7"), !.label = Str("SHOWS")],
   [NoKeysEdge EXCEPT !.source = Str("7"), !.to = Str("9")],
   [NoKeysEdge EXCEPT !.source = Str("7")]}

\* Edges of the classic form { source: Type, target: Type, source_value, target_value }.
ClassicEdges ==
  {[NoKeysEdge EXCEPT !.source = Str("Film"), !.target = Str("Cinema"),
                      !.source_value = sv, !.target_value = tv,
                      !.relationship = Str("SHOWS")] :
     sv \in {Undef, Nil, Str("5"), Num("7"), Str("1"), Str("2")},
     tv \in {Str("7"), Str("8")}}

ArrayPayloads ==
  {[id |-> Str("graph"), nodesKind |-> "array", nodesArray |-> arr, nodesObject |-> << >>,
    edges |-> es] :
     arr \in ItemArrays, es \in {<< >>} \cup {<< e >> : e \in DirectEdges}}

\* Node objects with a type: the raw id 7 as a string or as a number, and 9.
TypedItems ==
  {[NoKeysNode EXCEPT !.id = a, !.type = t] :
     a \in {Str("7"), Num("7"), Str("9")},
     t \in {Undef, Str("Film"), Str("Cinema")}}

\* Edges that refer to the raw id 7, with and without the type of the node
\* meant: from/to with fromType/toType, the classic form, and source/target.
ReferringEdges ==
  {[NoKeysEdge EXCEPT !.from = f, !.fromType = ft, !.to = t, !.toType = tt,
                      !.relationship = Str("SHOWS")] :
     f \in {Str("7"), Num("7")}, ft \in {Undef, Str("Film"), Str("Actor")},
     t \in {Str("7"), Str("9")}, tt \in {Undef, Str("Cinema")}}
  \cup
  {[NoKeysEdge EXCEPT !.source = Str("Film"), !.target = Str("Cinema"),
                      !.source_value = sv, !.target_value = Str("7"),
                      !.relationship = Str("SHOWS")] :
     sv \in {Str("7"), Num("7")}}
  \cup
  {[NoKeysEdge EXCEPT !.source = src, !.target = Str("9"), !.label = Str("SHOWS")] :
     src \in {Str("7"), Num("7")}}

\* Array payloads whose nodes may share a raw id across types.
TypedPayloads ==
  {[id |-> Str("graph"), nodesKind |-> "array", nodesArray |-> arr, nodesObject |-> << >>,
    edges |-> << e >>] :
     arr \in UNION {[1..n -> TypedItems] : n \in 1..MaxItems}, e \in ReferringEdges}

NestedPayloads ==
  {[id |-> Str("graph"), nodesKind |-> "object", nodesArray |-> << >>,
    nodesObject |-> << [type |-> "Film", arr |-> arr],
                       [type |-> "Cinema", arr |-> << [NoKeysNode EXCEPT !.id = Str("7")] >>] >>,
    edges |-> es] :
     arr \in ItemArrays, es \in {<< >>} \cup {<< e >> : e \in ClassicEdges}}

NoPayload == [id |-> Undef, nodesKind |-> "array", nodesArray |-> << >>,
              nodesObject |-> << >>, edges |-> << >>]

NotNormalized == [done |-> FALSE, payload |-> NoPayload]

\* resolveGraphData: normalizeGraphPayload(staticData)
Normalize ==
  /\ ~normalized.done
  /\ normalized' = [done |-> TRUE, payload |-> normalizeGraphPayload(staticData)]
  /\ UNCHANGED << uiVars, extVars, staticData, gridInput, gridLayout, zoomInput, gc >>

(***************************************************************************)
(* The grid fallback of applySimpleLayout, followed by applyNodeScale.     *)
(* World coordinates are integers; the node scale is in tenths.            *)
(***************************************************************************)
baseNodeWidth == 260
baseNodeHeight == 200

\* Largest node count of a modelled grid run.
MaxGridNodes == 6

\* Math.ceil(Math.sqrt(n))
CeilSqrt(n) == CHOOSE c \in 0..n : c * c >= n /\ (c = 0 \/ (c - 1) * (c - 1) < n)

\* Math.ceil(a / b)
CeilDiv(a, b) == (a + b - 1) \div b

\* spreadNodesInGrid: the grid cell of the node with the given index.
GridCell(index, cols) == [col |-> index % cols, row |-> index \div cols]

\* spreadNodesInGrid(graph): the node centers it leaves, by node index.
spreadNodesInGrid(centers) ==
  LET n == Len(centers)
      cols == CeilSqrt(n)
      rows == CeilDiv(n, cols)
      spacingX == (baseNodeWidth * 23) \div 10
      spacingY == baseNodeHeight * 2
      startX == -(((cols - 1) * spacingX) \div 2)
      startY == -(((rows - 1) * spacingY) \div 2)
  IN IF n <= 1 THEN centers
     ELSE [k \in 1..n |->
             [x |-> startX + GridCell(k - 1, cols).col * spacingX,
              y |-> startY + GridCell(k - 1, cols).row * spacingY]]

\* applyNodeScale(): every node gets the scaled size around its center.
applyNodeScale(centers, scale) ==
  LET w == (baseNodeWidth * scale) \div 10
      h == (baseNodeHeight * scale) \div 10
  IN [k \in 1..Len(centers) |->
        [x |-> centers[k].x - w \div 2, y |-> centers[k].y - h \div 2,
         width |-> w, height |-> h]]

\* Two rectangles share interior points.
Overlap(r1, r2) ==
  /\ r1.x < r2.x + r2.width /\ r2.x < r1.x + r1.width
  /\ r1.y < r2.y + r2.height /\ r2.y < r1.y + r1.height

NoGridInput == [count |-> 0, nodeScale |-> 10]
NoGridLayout == [done |-> FALSE, rects |-> << >>]

\* applySimpleLayout found the organic layout too tight (here: every node at
\* the origin) and ran spreadNodesInGrid; loadGraph then ran applyNodeScale.
GridFallback ==
  /\ ~gridLayout.done
  /\ gridLayout' =
       [done |-> TRUE,
        rects |-> applyNodeScale(
                    spreadNodesInGrid([k \in 1..gridInput.count |-> [x |-> 0, y |-> 0]]),
                    gridInput.nodeScale)]
  /\ UNCHANGED << uiVars, extVars, staticData, normalized, gridInput, zoomInput, gc >>

(***************************************************************************)
(* adjustInitialZoomForNodeCount.  Zoom values are in units of 0.0001, the *)
(* node scale in tenths, the readable pixel width in units of 1/520 pixel; *)
(* products are rounded down.  zoom, minimumZoom and maximumZoom are the   *)
(* properties of the graph component as the function reads and writes them.*)
(***************************************************************************)
MIN_READABLE_NODE_PIXEL_WIDTH_NEAR == 110
MIN_READABLE_NODE_PIXEL_WIDTH_FAR == 68
MIN_READABLE_NODE_COUNT == 80
MAX_READABLE_NODE_COUNT == 600
\* Zoom units per 1.0.
ZoomScale == 10000
AUTO_MAXIMUM_ZOOM_CAP == 12 * ZoomScale
AUTO_MINIMUM_ZOOM_FLOOR == (4 * ZoomScale) \div 100

Abs(a) == IF a < 0 THEN -a ELSE a

\* computeMinReadableNodePixelWidth(count), times 520.
computeMinReadableNodePixelWidth(count) ==
  LET span == MAX_READABLE_NODE_COUNT - MIN_READABLE_NODE_COUNT
  IN IF count <= 0 THEN MIN_READABLE_NODE_PIXEL_WIDTH_NEAR * span
     ELSE IF count <= MIN_READABLE_NODE_COUNT THEN MIN_READABLE_NODE_PIXEL_WIDTH_NEAR * span
     ELSE IF count >= MAX_READABLE_NODE_COUNT THEN MIN_READABLE_NODE_PIXEL_WIDTH_FAR * span
     ELSE MIN_READABLE_NODE_PIXEL_WIDTH_NEAR * span
          - (count - MIN_READABLE_NODE_COUNT)
            * (MIN_READABLE_NODE_PIXEL_WIDTH_NEAR - MIN_READABLE_NODE_PIXEL_WIDTH_FAR)

\* readableMinZoom = Math.max(minZoom * 0.92, AUTO_MINIMUM_ZOOM_FLOOR)
readableMinZoomOf(count, scale) ==
  LET span == MAX_READABLE_NODE_COUNT - MIN_READABLE_NODE_COUNT
      worldNodeWidth == (baseNodeWidth * scale) \div 10
      minZoom == (computeMinReadableNodePixelWidth(count) * ZoomScale) \div (span * worldNodeWidth)
  IN Max2((minZoom * 92) \div 100, AUTO_MINIMUM_ZOOM_FLOOR)

\* targetMinZoom
targetMinZoomOf(readableMinZoom) == Max2(AUTO_MINIMUM_ZOOM_FLOOR, readableMinZoom \div 4)

\* A plausible slip: the cap on the maximum zoom is left out.
targetMaxZoomNoCap(existingMax, readableMinZoom) ==
  Max2(readableMinZoom + (5 * ZoomScale) \div 100,
       Max2(existingMax, Max2((readableMinZoom * 45) \div 10, 6 * ZoomScale)))

\* targetMaxZoom
targetMaxZoomOf(existingMax, readableMinZoom) ==
  LET rawDesiredMax == Max2(existingMax, Max2((readableMinZoom * 45) \div 10, 6 * ZoomScale))
  IN Max2(readableMinZoom + (5 * ZoomScale) \div 100,
          Min2(rawDesiredMax, AUTO_MAXIMUM_ZOOM_CAP))

\* adjustInitialZoomForNodeCount(count) with nodeScale.value = scale, on the
\* properties g of the graph component.
adjustInitialZoomForNodeCount(count, scale, g) ==
  LET currentZoom == g.zoom
      readableMinZoom == readableMinZoomOf(count, scale)
      targetMinZoom == targetMinZoomOf(readableMinZoom)
      existingMin == g.minimumZoom
      existingMax == g.maximumZoom
      targetMaxZoom == targetMaxZoomOf(existingMax, readableMinZoom)
      comfyUpper == Max2(targetMinZoom, readableMinZoom \div 2)
      d1 == IF currentZoom > comfyUpper THEN comfyUpper ELSE currentZoom
      d2 == IF d1 < targetMinZoom THEN targetMinZoom ELSE d1
      desiredZoom == IF d2 > targetMaxZoom THEN targetMaxZoom ELSE d2
  IN [minimumZoom |-> IF Abs(existingMin - targetMinZoom) > (2 * ZoomScale) \div 1000
                      THEN targetMinZoom ELSE existingMin,
      maximumZoom |-> IF Abs(existingMax - targetMaxZoom) > ZoomScale \div 100
                      THEN targetMaxZoom ELSE existingMax,
      zoom |-> IF Abs(desiredZoom - currentZoom) > (5 * ZoomScale) \div 1000 THEN desiredZoom ELSE currentZoom]

\* Prior properties of the graph component: consistent ones only.
PriorGc ==
  {g \in [zoom : {100, 360, 400, 440, 1000, 10000, 119950, 120050},
          minimumZoom : {1, 390, 400, 410, 440, 1600},
          maximumZoom : {40000, 60000, 119950, 120050, 10000000}] :
     g.minimumZoom <= g.zoom /\ g.zoom <= g.maximumZoom}

ZoomInputs ==
  [count : {1, 80, 81, 340, 599, 600, 5000}, nodeScale : NodeScaleMin..NodeScaleMax,
   done : {FALSE}]

NoZoomInput == [count |-> 0, nodeScale |-> 10, done |-> FALSE]
DefaultGc == [zoom |-> 10000, minimumZoom |-> 1, maximumZoom |-> 10000000]

\* adjustInitialZoomForNodeCount(graph.nodes.size) runs once.
AdjustInitialZoom ==
  /\ ~zoomInput.done
  /\ zoomInput.count > 0
  /\ gc' = adjustInitialZoomForNodeCount(zoomInput.count, zoomInput.nodeScale, gc)
  /\ zoomInput' = [zoomInput EXCEPT !.done = TRUE]
  /\ UNCHANGED << uiVars, extVars, staticData, normalized, gridInput, gridLayout >>

(***************************************************************************)
(* The dataset list: graphModules, buildManifestEntries and                *)
(* resolveDefaultFile.  A bundled module is [file, id]: the last path      *)
(* segment of its glob key and its payload's id ("" when the payload has   *)
(* no string id).                                                          *)
(***************************************************************************)
\* graphModules[file] = payload; moduleKinds.set(file, kind): an assignment to a
\* key that exists replaces the value and keeps the key's position.
putModule(mods, m, kind) ==
  LET e == [file |-> m.file, id |-> m.id, source |-> kind]
  IN IF \E i \in DOMAIN mods : mods[i].file = m.file
     THEN [i \in DOMAIN mods |-> IF mods[i].file = m.file THEN e ELSE mods[i]]
     ELSE Append(mods, e)

RECURSIVE putModules(_, _, _)
putModules(mods, list, kind) ==
  IF list = << >> THEN mods
  ELSE putModules(putModule(mods, Head(list), kind), Tail(list), kind)

\* graphModules and moduleKinds after the two loops over dataModules and
\* schemaModules.
graphModulesOf(data, schema) ==
  putModules(putModules(<< >>, data, "data"), schema, "schema")

\* The file names of the model, each <base>.json.
ModuleBases == {"cinema", "spider_a", "Spider_B", "spider_c", "zebra",
                "cine", "cine_kgs_data", "cine_kgs", "shop", "other"}

\* file.replace(/\.json$/i, '').trim()
fallbackIdOf(file) ==
  IF \E b \in ModuleBases : b \o ".json" = file
  THEN CHOOSE b \in ModuleBases : b \o ".json" = file
  ELSE file

\* isSpider(value): value.trim().toLowerCase().startsWith('spider_')
isSpider(id) ==
  \E p \in {"spider_", "Spider_"}, rest \in {"a", "B", "c", "z"} : id = p \o rest

\* The rank of an id in the order of String.prototype.localeCompare.
LocaleRank(id) ==
  CASE id = "cine" -> 1
    [] id = "cine_kgs" -> 2
    [] id = "cine_kgs_data" -> 3
    [] id = "cinema" -> 4
    [] id = "other" -> 5
    [] id = "shop" -> 6
    [] id = "spider_a" -> 7
    [] id = "Spider_B" -> 8
    [] id = "spider_c" -> 9
    [] id = "spider_z" -> 10
    [] id = "zebra" -> 11
    [] OTHER -> 12

\* The comparator handed to resolvedEntries.sort.
compareEntries(a, b) ==
  IF a.source # b.source
  THEN (IF a.source = "data" THEN -1 ELSE 1)
  ELSE IF isSpider(a.id) # isSpider(b.id)
  THEN (IF isSpider(a.id) THEN -1 ELSE 1)
  ELSE LocaleRank(a.id) - LocaleRank(b.id)

\* Array.prototype.sort is stable: an entry goes in front of the first entry that
\* compares greater.
insertEntry(sorted, e) ==
  LET after == { i \in DOMAIN sorted : compareEntries(sorted[i], e) > 0 }
      at == IF after = {} THEN Len(sorted) + 1
            ELSE CHOOSE i \in after : \A j \in after : i <= j
  IN SubSeq(sorted, 1, at - 1) \o << e >> \o SubSeq(sorted, at, Len(sorted))

RECURSIVE sortEntries(_, _)
sortEntries(sorted, rest) ==
  IF rest = << >> THEN sorted
  ELSE sortEntries(insertEntry(sorted, Head(rest)), Tail(rest))

\* buildManifestEntries() (no manifest is passed in): one entry per key of
\* graphModules, id = payloadId || fallbackId, then the sort.
buildManifestEntries(mods) ==
  sortEntries(<< >>,
    [i \in DOMAIN mods |->
       [id |-> IF mods[i].id # "" THEN mods[i].id ELSE fallbackIdOf(mods[i].file),
        file |-> mods[i].file,
        source |-> mods[i].source]])

\* picker(predicate): the file of the first entry that satisfies it, else Null.
picker(entries, matching) ==
  IF matching = {} THEN Null
  ELSE entries[CHOOSE i \in matching : \A j \in matching : i <= j].file

resolveDefaultFile(entries) ==
  LET spiderData == picker(entries, { i \in DOMAIN entries :
                             entries[i].source = "data" /\ isSpider(entries[i].id) })
      anyData == picker(entries, { i \in DOMAIN entries : entries[i].source = "data" })
  IN IF spiderData # Null THEN spiderData
     ELSE IF anyData # Null THEN anyData
     ELSE IF entries # << >> THEN entries[1].file
     ELSE ""

\* The modules a build may bundle: any sub-list of the files below.
DataMasters ==
  { << [file |-> "Spider_B.json", id |-> ""],
       [file |-> "cinema.json", id |-> cid],
       [file |-> "spider_a.json", id |-> ""],
       [file |-> "zebra.json", id |-> zid] >> : cid \in {"", "shop"}, zid \in {"", "spider_z"} }

SchemaMasters ==
  { << [file |-> "cinema.json", id |-> ""],
       [file |-> "spider_c.json", id |-> sid] >> : sid \in {"", "cinema"} }

SubLists(master) ==
  { SelectSeq(master, LAMBDA m : m.file \in keep) :
      keep \in SUBSET { master[i].file : i \in DOMAIN master } }

BundledData == UNION { SubLists(master) : master \in DataMasters }
BundledSchema == UNION { SubLists(master) : master \in SchemaMasters }

IdleManifest ==
  /\ dataModules = << >>
  /\ schemaModules = << >>
  /\ manifestEntries = << >>
  /\ initialFile = Null

\* Module evaluation and setup(): graphModules is filled, manifestEntries and
\* selectedFile are constructed.
BuildManifest ==
  /\ initialFile = Null
  /\ manifestEntries' = buildManifestEntries(graphModulesOf(dataModules, schemaModules))
  /\ initialFile' = resolveDefaultFile(manifestEntries')
  /\ UNCHANGED << uiVars, pureVars, dataModules, schemaModules, metricsVars, renameVars, layoutVars, domVars, addVars, colorVars >>

(***************************************************************************)
(* Evaluation scores: ensureEvaluationSummaryLoaded and applyMetricsFor.   *)
(* The CSV text is a sequence of non-empty lines, a line the sequence of   *)
(* its trimmed cells; a number is written as its decimal string.           *)
(***************************************************************************)
\* Rows parsed from the CSV / selections whose continuation is still suspended.
MaxRows == 2
MaxPending == 2

\* part.toLowerCase().includes(needle) on the cells of the model.
CellIncludes(cell, needle) ==
  cell \in (CASE needle = "schema" -> {"Schema_Comp"}
              [] needle = "relationship" -> {"relationship_comp"}
              [] needle = "kgs" -> {"KGS", "cine_kgs"}
              [] needle = "db_name" -> {"db_name"}
              [] OTHER -> {})

\* headerLower.findIndex(part => part.includes(needle)), 0-based, -1 if none.
findIndex(line, needle) ==
  LET hits == { i \in DOMAIN line : CellIncludes(line[i], needle) }
  IN IF hits = {} THEN -1 ELSE (CHOOSE i \in hits : \A j \in hits : i <= j) - 1

\* Number.parseFloat and Number.isFinite(value) ? value : null
parseScore(raw) ==
  CASE raw \in {"0.5", "0.50"} -> "0.5"
    [] raw \in {"0.7", "0.9", "1"} -> raw
    [] OTHER -> Null

\* hasHeaderRow, startIndex and the four column indexes.
csvColumns(header) ==
  LET hasHeaderRow == \E i \in DOMAIN header :
                         \/ CellIncludes(header[i], "schema")
                         \/ CellIncludes(header[i], "relationship")
                         \/ CellIncludes(header[i], "kgs")
      nameIndex == IF hasHeaderRow THEN findIndex(header, "db_name") ELSE 0
      schemaIndex == IF hasHeaderRow THEN findIndex(header, "schema") ELSE 1
      schemaFixed == IF schemaIndex < 0 THEN 1 ELSE schemaIndex
      relationshipIndex == IF hasHeaderRow THEN findIndex(header, "relationship") ELSE 2
  IN [start |-> IF hasHeaderRow THEN 1 ELSE 0,
      name |-> IF nameIndex < 0 THEN 0 ELSE nameIndex,
      schema |-> schemaFixed,
      relationship |-> IF relationshipIndex < 0 THEN schemaFixed + 1 ELSE relationshipIndex,
      kgs |-> IF hasHeaderRow THEN findIndex(header, "kgs") ELSE -1]

\* The keys one row is stored under.
rowKeys(parts, cols) ==
  LET dbName == parts[cols.name + 1]
      derived == dbName \o "_kgs_data"
  IN {dbName, derived, derived \o ".json"}
       \cup (IF cols.kgs >= 0 /\ parts[cols.kgs + 1] # ""
             THEN {parts[cols.kgs + 1], parts[cols.kgs + 1] \o ".json"}
             ELSE {})

\* A line shorter than the largest column index, or without a name, is skipped.
rowAccepted(parts, cols) ==
  /\ Len(parts) > Max2(Max2(cols.name, cols.schema), Max2(cols.relationship, cols.kgs))
  /\ parts[cols.name + 1] # ""

\* The loop over the lines from index i (0-based): parsed[key] = { ...metrics }.
RECURSIVE parseLines(_, _, _, _)
parseLines(parsed, lines, i, cols) ==
  IF i >= Len(lines) THEN parsed
  ELSE LET parts == lines[i + 1]
           scores == [schemaComp |-> parseScore(parts[cols.schema + 1]),
                      relationshipComp |-> parseScore(parts[cols.relationship + 1])]
           keys == rowKeys(parts, cols)
       IN IF ~rowAccepted(parts, cols) THEN parseLines(parsed, lines, i + 1, cols)
          ELSE parseLines([k \in DOMAIN parsed \cup keys |->
                             IF k \in keys THEN scores ELSE parsed[k]],
                          lines, i + 1, cols)

NoSummary == [k \in {} |-> Null]

\* evaluationSummary.value after ensureEvaluationSummaryLoaded on the CSV.
parseEvaluationSummary(csv) ==
  IF csv = << >> THEN NoSummary
  ELSE parseLines(NoSummary, csv, csvColumns(csv[1]).start, csvColumns(csv[1]))

NoScores == [schemaComp |-> Null, relationshipComp |-> Null]

\* Looks the file up before the id.
applyMetricsForFileFirst(file, entries, summary) ==
  LET id == (CHOOSE e \in { entries[i] : i \in DOMAIN entries } : e.file = file).id
  IN IF file \in DOMAIN summary THEN summary[file]
     ELSE IF id \in DOMAIN summary THEN summary[id]
     ELSE NoScores

\* metrics.value after applyMetricsFor(file).
applyMetricsFor(file, entries, summary) ==
  LET found == { i \in DOMAIN entries : entries[i].file = file }
      key == IF found = {} THEN file
             ELSE entries[CHOOSE i \in found : \A j \in found : i <= j].id
  IN IF key \in DOMAIN summary THEN summary[key]
     ELSE IF file \in DOMAIN summary THEN summary[file]
     ELSE NoScores

\* The CSV files of the model: a header with or without a KGS column, or none,
\* and up to MaxRows data rows.
CsvHeader == << "db_name", "Schema_Comp", "relationship_comp" >>

CsvRows3 == { << "cine", "0.5", "0.7" >>, << "shop", "n/a", "0.9" >>,
              << "cine", "0.50", "1" >> }

CsvRows4 == { << "cine", "0.5", "0.7", k >> : k \in {"", "cine_kgs"} }
              \cup { << "shop", "n/a", "0.9", k >> : k \in {"", "cine"} }

RowLists(rows) == UNION { [1..n -> rows] : n \in 0..MaxRows }

CsvFiles ==
  {<< >>} \cup RowLists(CsvRows3)
    \cup { << CsvHeader >> \o rs : rs \in RowLists(CsvRows3) }
    \cup { << CsvHeader \o << "KGS" >> >> \o rs : rs \in RowLists(CsvRows3 \cup CsvRows4) }

\* The datasets bundled with the score files of the model.
ScoredData ==
  { << [file |-> "cine_kgs.json", id |-> kid],
       [file |-> "cine_kgs_data.json", id |-> ""],
       [file |-> "other.json", id |-> oid] >> : kid \in {"", "shop"}, oid \in {"", "cine"} }

ScoredSchema == { << [file |-> "shop.json", id |-> ""] >> }

IdleMetrics ==
  /\ evaluationSummaryCsvRaw = << >>
  /\ evaluationSummary = NoSummary
  /\ evaluationSummaryLoaded = FALSE
  /\ metrics = NoScores
  /\ pendingMetrics = << >>
  /\ shownFile = Null

\* The select element sets selectedFile; the watcher's async block (and after
\* it loadGraph, with the same calls) is queued behind those already suspended.
SelectDataset(file) ==
  /\ Len(pendingMetrics) < MaxPending
  /\ shownFile # file
  /\ shownFile' = file
  /\ pendingMetrics' = Append(pendingMetrics, file)
  /\ UNCHANGED << uiVars, pureVars, manifestVars, renameVars, layoutVars, domVars, addVars, colorVars, evaluationSummaryCsvRaw,
                  evaluationSummary, evaluationSummaryLoaded, metrics >>

\* A suspended block resumes: await ensureEvaluationSummaryLoaded();
\* applyMetricsFor(file).
ApplyMetrics ==
  /\ pendingMetrics # << >>
  /\ evaluationSummary' = IF evaluationSummaryLoaded THEN evaluationSummary
                          ELSE parseEvaluationSummary(evaluationSummaryCsvRaw)
  /\ evaluationSummaryLoaded' = TRUE
  /\ metrics' = applyMetricsFor(Head(pendingMetrics), manifestEntries, evaluationSummary')
  /\ pendingMetrics' = Tail(pendingMetrics)
  /\ UNCHANGED << uiVars, pureVars, manifestVars, renameVars, layoutVars, domVars, addVars, colorVars, evaluationSummaryCsvRaw, shownFile >>

(***************************************************************************)
(* scripts/normalize-graph-files.cjs: normalize().  The graphs directory   *)
(* is a set of dirEntries [name, kind, was]; 'was' is the name the entry had  *)
(* when the script started and stands for its content.                     *)
(***************************************************************************)
\* Entries in the graphs directory when the script starts.
MaxDirEntries == 3

\* The names of the model: <stem><suffix><ext>.
NameStems == {"a", "b", "manifest", "Manifest"}
NameParts == [stem : NameStems, suffix : {"", "_yfiles"}, ext : {".json", ".txt", ""}]
NameOf(p) == p.stem \o p.suffix \o p.ext
PartsOf(name) == CHOOSE p \in NameParts : NameOf(p) = name

\* path.extname(originalName) and originalName.slice(0, -ext.length)
extname(name) == PartsOf(name).ext
nameWithoutExt(name) == PartsOf(name).stem \o PartsOf(name).suffix

\* nameWithoutExt.toLowerCase() === 'manifest'
isManifest(name) == nameWithoutExt(name) \in {"manifest", "Manifest"}

\* normalizedBase + '.json'
targetNameOf(name) ==
  IF PartsOf(name).suffix = "_yfiles"
  THEN nameWithoutExt(name) \o ".json"
  ELSE nameWithoutExt(name) \o "_yfiles" \o ".json"

\* fs.access(targetPath) resolves for every existing entry; it never resolves.
accessNever(dir, name) == FALSE

\* fs.access(targetPath) resolves: an entry of that name exists.
access(dir, name) == \E e \in dir : e.name = name

\* fs.rename(originalPath, targetPath): an existing target is replaced.
rename(dir, e, target) ==
  { x \in dir : x.name # target /\ x # e } \cup { [e EXCEPT !.name = target] }

\* The directories of the model; only files are renamed, a directory can hold a
\* target name.
DirEntries ==
  { [name |-> n, kind |-> "file", was |-> n] :
      n \in {"a.json", "a.txt", "a", "a_yfiles.json", "a_yfiles.txt", "b.json",
             "b_yfiles", "manifest.json", "Manifest.txt", "manifest_yfiles.json"} }
    \cup { [name |-> n, kind |-> "dir", was |-> n] : n \in {"a_yfiles.json", "b"} }

GraphDirs ==
  { d \in SUBSET DirEntries :
      /\ Cardinality(d) <= MaxDirEntries
      /\ \A x, y \in d : x.name = y.name => x = y }

\* fs.readdir returns the dirEntries in an order of the file system's choosing.
Orderings(d) ==
  { s \in [1..Cardinality(d) -> d] : \A i, j \in DOMAIN s : s[i] = s[j] => i = j }

IdleRename ==
  /\ graphsDir = {}
  /\ dirAtStart = {}
  /\ dirEntries = << >>
  /\ renamed = 0
  /\ report = "idle"

\* One iteration of 'for (const entry of entries)'.
NormalizeEntry ==
  /\ report = Null
  /\ dirEntries # << >>
  /\ LET entry == Head(dirEntries)
         targetName == targetNameOf(entry.name)
         skip == \/ entry.kind # "file"
                 \/ isManifest(entry.name)
                 \/ targetName = entry.name
                 \/ access(graphsDir, targetName)
     IN /\ graphsDir' = IF skip THEN graphsDir ELSE rename(graphsDir, entry, targetName)
        /\ renamed' = IF skip THEN renamed ELSE renamed + 1
  /\ dirEntries' = Tail(dirEntries)
  /\ UNCHANGED << uiVars, pureVars, manifestVars, metricsVars, layoutVars, domVars, addVars, colorVars, dirAtStart, report >>

\* After the loop: the message that is logged.
ReportRenamed ==
  /\ report = Null
  /\ dirEntries = << >>
  /\ report' = IF renamed = 0 THEN "No files required renaming" ELSE "Renamed file(s)"
  /\ UNCHANGED << uiVars, pureVars, manifestVars, metricsVars, layoutVars, domVars, addVars, colorVars, graphsDir, dirAtStart,
                  dirEntries, renamed >>

(***************************************************************************)
(* applySimpleLayout, the custom repulsion/attraction loop.  Positions and *)
(* displacements are in units of 1/PosScale, the temperature in units of   *)
(* 1/TempScale.  Quotients are rounded toward zero and the square root of  *)
(* a displacement is rounded up, so that a step of the model is never      *)
(* longer than the exact one.                                              *)
(***************************************************************************)
\* Nodes and edges of the graphs that are laid out.
MaxLayoutNodes == 3
MaxLayoutEdges == 2

PosScale == 4
TempScale == 10000
LayoutIterations == 120
MinLayoutWidth == 1200
LayoutWidthPerNode == 280
CoolingPercent == 92

\* x rounded toward zero after division by y > 0.
QuoT(x, y) == IF x >= 0 THEN x \div y ELSE -((-x) \div y)

\* The greatest root r with r * r <= n, found bit by bit.
RECURSIVE SqrtDown(_, _, _)
SqrtDown(n, r, bit) ==
  IF bit = 0 THEN r
  ELSE IF r + bit <= 46340 /\ (r + bit) * (r + bit) <= n
       THEN SqrtDown(n, r + bit, bit \div 2)
       ELSE SqrtDown(n, r, bit \div 2)

\* Math.sqrt, rounded up.
SqrtUp(n) ==
  LET r == SqrtDown(n, 0, 32768) IN IF r * r < n THEN r + 1 ELSE r

\* Math.sqrt(dx * dx + dy * dy) for components of any size: large components are
\* scaled down first.
HypotScale(dx, dy) == (Max2(Abs(dx), Abs(dy)) \div 30000) + 1
Hypot(dx, dy) ==
  LET q == HypotScale(dx, dy)
  IN SqrtUp(QuoT(dx, q) * QuoT(dx, q) + QuoT(dy, q) * QuoT(dy, q)) * q

\* Math.cos(angle) * 320 and Math.sin(angle) * 320 for index of count nodes.
CirclePosition(index, count) ==
  CASE index = 0 -> [x |-> 320 * PosScale, y |-> 0]
    [] count = 2 /\ index = 1 -> [x |-> -320 * PosScale, y |-> 0]
    [] count = 3 /\ index = 1 -> [x |-> -160 * PosScale, y |-> 1109]
    [] count = 3 /\ index = 2 -> [x |-> -160 * PosScale, y |-> -1109]
    [] count = 4 /\ index = 1 -> [x |-> 0, y |-> 320 * PosScale]
    [] count = 4 /\ index = 2 -> [x |-> -320 * PosScale, y |-> 0]
    [] OTHER -> [x |-> 0, y |-> -320 * PosScale]

layoutWidth(count) == Max2(MinLayoutWidth, count * LayoutWidthPerNode)
\* k * k = area / nodes.length
layoutKSquared(count) == (layoutWidth(count) * layoutWidth(count)) \div count

\* The pair (i, j) repels i: (dx / distance) * repulsiveForce(distance); zero for
\* coincident positions, where dx and dy are zero.
repulsion(a, b, count) ==
  LET dx == a.x - b.x
      dy == a.y - b.y
      dd == dx * dx + dy * dy
      f == IF dd = 0 THEN 0 ELSE (layoutKSquared(count) * PosScale * PosScale * 64) \div dd
  IN [x |-> QuoT(f * dx, 64), y |-> QuoT(f * dy, 64)]

\* An edge pulls its source: (dx / distance) * attractiveForce(distance); zero for
\* a self-loop.
attraction(s, t, count) ==
  LET dx == s.x - t.x
      dy == s.y - t.y
      d == Hypot(dx, dy)
      k == SqrtUp(layoutKSquared(count) * PosScale * PosScale)
  IN [x |-> QuoT(dx * d, k), y |-> QuoT(dy * d, k)]

RECURSIVE SumX(_, _)
SumX(f, S) == IF S = {} THEN 0
              ELSE LET i == CHOOSE i \in S : TRUE IN f[i].x + SumX(f, S \ {i})
RECURSIVE SumY(_, _)
SumY(f, S) == IF S = {} THEN 0
              ELSE LET i == CHOOSE i \in S : TRUE IN f[i].y + SumY(f, S \ {i})

\* displacements.get(node) after the repulsion and the attraction loops.
displacementOf(n, pos, edges) ==
  LET count == Len(pos)
      rep == [m \in DOMAIN pos |->
                IF m = n THEN [x |-> 0, y |-> 0] ELSE repulsion(pos[n], pos[m], count)]
      att == [e \in DOMAIN edges |->
                LET a == attraction(pos[edges[e][1]], pos[edges[e][2]], count)
                    asSource == IF edges[e][1] = n THEN -1 ELSE 0
                    asTarget == IF edges[e][2] = n THEN 1 ELSE 0
                IN [x |-> (asSource + asTarget) * a.x, y |-> (asSource + asTarget) * a.y]]
  IN [x |-> SumX(rep, DOMAIN rep) + SumX(att, DOMAIN att),
      y |-> SumY(rep, DOMAIN rep) + SumY(att, DOMAIN att)]

\* The temperature in position units.
temperatureLimit(temp) == (temp * PosScale) \div TempScale

\* The step is limit = Math.max(distance, temperature) long.
stepOfUnlimited(d, temp) ==
  LET q == HypotScale(d.x, d.y)
      distance == Hypot(d.x, d.y)
      limit == Max2(distance, temperatureLimit(temp))
  IN IF distance > 0
     THEN [x |-> QuoT(QuoT(d.x, q) * limit, distance \div q),
           y |-> QuoT(QuoT(d.y, q) * limit, distance \div q)]
     ELSE [x |-> d.x, y |-> d.y]

\* The step of a node: its displacement, cut to limit = Math.min(distance,
\* temperature).
stepOf(d, temp) ==
  LET q == HypotScale(d.x, d.y)
      distance == Hypot(d.x, d.y)
      limit == Min2(distance, temperatureLimit(temp))
  IN IF distance > 0
     THEN [x |-> QuoT(QuoT(d.x, q) * limit, distance \div q),
           y |-> QuoT(QuoT(d.y, q) * limit, distance \div q)]
     ELSE [x |-> d.x, y |-> d.y]

\* The graphs that are laid out: nodes 1..count, edges as (source, target) pairs,
\* self-loops and parallel edges included.
LayoutGraphs ==
  UNION { [count : {c}, edges : UNION { [1..m -> (1..c) \X (1..c)] : m \in 0..MaxLayoutEdges }]
            : c \in 0..MaxLayoutNodes }

IdleLayout ==
  /\ layoutGraph = [count |-> 0, edges |-> << >>]
  /\ positions = << >>
  /\ temperature = 0
  /\ iteration = 0
  /\ layoutPc = "idle"

\* The call up to the loop: an empty graph returns at once.
LayoutStart ==
  /\ layoutPc = "call"
  /\ IF layoutGraph.count = 0
     THEN /\ layoutPc' = "done"
          /\ UNCHANGED << positions, temperature >>
     ELSE /\ layoutPc' = "loop"
          /\ positions' = [i \in 1..layoutGraph.count |-> CirclePosition(i - 1, layoutGraph.count)]
          /\ temperature' = (layoutWidth(layoutGraph.count) * TempScale) \div 8
  /\ UNCHANGED << uiVars, pureVars, manifestVars, metricsVars, renameVars, domVars, addVars, colorVars,
                  layoutGraph, iteration >>

\* One iteration of 'for (let iteration = 0; iteration < 120; iteration++)'.
LayoutIteration ==
  /\ layoutPc = "loop"
  /\ iteration < LayoutIterations
  /\ positions' = [n \in DOMAIN positions |->
                     LET step == stepOf(displacementOf(n, positions, layoutGraph.edges),
                                        temperature)
                     IN [x |-> positions[n].x + step.x, y |-> positions[n].y + step.y]]
  /\ temperature' = (temperature * CoolingPercent) \div 100
  /\ iteration' = iteration + 1
  /\ UNCHANGED << uiVars, pureVars, manifestVars, metricsVars, renameVars, domVars, addVars, colorVars,
                  layoutGraph, layoutPc >>

\* After the loop: the positions are shifted so that the least x and y are 250,
\* and handed to graph.setNodeCenter.
LayoutFinish ==
  /\ layoutPc = "loop"
  /\ iteration >= LayoutIterations
  /\ LET minX == CHOOSE v \in { positions[i].x : i \in DOMAIN positions } :
                    \A i \in DOMAIN positions : v <= positions[i].x
         minY == CHOOSE v \in { positions[i].y : i \in DOMAIN positions } :
                    \A i \in DOMAIN positions : v <= positions[i].y
     IN positions' = [n \in DOMAIN positions |->
                        [x |-> positions[n].x - minX + 250 * PosScale,
                         y |-> positions[n].y - minY + 250 * PosScale]]
  /\ layoutPc' = "done"
  /\ UNCHANGED << uiVars, pureVars, manifestVars, metricsVars, renameVars, domVars, addVars, colorVars,
                  layoutGraph, temperature, iteration >>

(***************************************************************************)
(* The DOM listeners of configureInteraction and their cleanup.  A         *)
(* registered listener is [target, type, callback, capture].               *)
(***************************************************************************)
\* EventTarget.addEventListener: a listener is identified by type, callback and
\* capture flag; registering it twice has no effect.
addEventListener(ls, target, type, callback, capture) ==
  ls \cup { [target |-> target, type |-> type, callback |-> callback, capture |-> capture] }

\* EventTarget.removeEventListener: removes the listener of the same type,
\* callback and capture flag, if there is one.
removeEventListener(ls, target, type, callback, capture) ==
  ls \ { [target |-> target, type |-> type, callback |-> callback, capture |-> capture] }

\* The four addEventListener calls of configureInteraction: contextmenu with
\* { capture: true }, wheel with { passive: true }, click and keydown with no options.
configureInteraction(ls) ==
  addEventListener(
    addEventListener(
      addEventListener(
        addEventListener(ls, "container", "contextmenu", "onContextMenu", TRUE),
        "container", "wheel", "onWheel", FALSE),
      "document", "click", "onAnyClick", FALSE),
    "document", "keydown", "onKey", FALSE)

\* _codexCleanup: four removeEventListener calls, none with options.
codexCleanup(ls) ==
  removeEventListener(
    removeEventListener(
      removeEventListener(
        removeEventListener(ls, "container", "contextmenu", "onContextMenu", FALSE),
        "container", "wheel", "onWheel", FALSE),
      "document", "click", "onAnyClick", FALSE),
    "document", "keydown", "onKey", FALSE)

IdleListeners ==
  /\ listeners = {}
  /\ lifecycle = "idle"

\* onBeforeUnmount: the component is destroyed and runs its cleanup.
BeforeUnmount ==
  /\ lifecycle = "mounted"
  /\ listeners' = codexCleanup(listeners)
  /\ lifecycle' = "unmounted"
  /\ UNCHANGED << uiVars, pureVars, manifestVars, metricsVars, renameVars, layoutVars,
                  addVars, colorVars >>

(***************************************************************************)
(* 'Add node here' of the context menu.                                    *)
(***************************************************************************)
MaxNewNodes == 3

\* The template literal `new-node-${i}`.
newNodeId(i) == "new-node-" \o ToString(i)

\* used: the ids of the node tags, .filter(Boolean).
usedIds(g) == {n.id : n \in g.nodes} \ {Null, ""}

\* let i = 1; while (used.has(id)) { i += 1; id = `new-node-${i}` }
RECURSIVE firstUnused(_, _)
firstUnused(used, i) ==
  IF newNodeId(i) \in used THEN firstUnused(used, i + 1) ELSE newNodeId(i)

\* A plausible slip: the id is numbered by the node count.
generateUniqueNodeIdByCount(g) == newNodeId(Cardinality(g.nodes) + 1)

\* generateUniqueNodeId(), with the graph component present.
generateUniqueNodeId(g) == firstUnused(usedIds(g), 1)

\* The nodes a saved dataset may hold, some of them added in an earlier
\* session and so named new-node-i.
SavedNodes ==
  { [id |-> "a1", type |-> "Film", label |-> "Alien"],
    [id |-> "a2", type |-> Null, label |-> "Cinema"],
    [id |-> "new-node-1", type |-> Null, label |-> "New Node"],
    [id |-> "new-node-2", type |-> "Film", label |-> "Saved"],
    [id |-> "new-node-3", type |-> Null, label |-> "New Node"],
    [id |-> "new-node-02", type |-> Null, label |-> Null] }

IdleAdd == newNodes = 0

\* onAddNodeHere(): the context-menu button 'Add node here'.
OnAddNodeHere ==
  /\ newNodes < MaxNewNodes
  /\ LET id == generateUniqueNodeId(graph)
         nodeData == [id |-> id, type |-> Null, label |-> "New Node"]
         g == [graph EXCEPT !.nodes = @ \cup {nodeData}]
         u == updateStatsFromGraph(g, activeNodeLabelFilter, activeRelTypeFilter)
     IN /\ graph' = g
        /\ graphStats' = u.stats
        /\ activeNodeLabelFilter' = u.nodeFilter
        /\ activeRelTypeFilter' = u.relFilter
        /\ statusMessage' = Status("Node added", id)
  /\ newNodes' = newNodes + 1
  /\ afhRun' = [depth |-> 0, final |-> FALSE]
  /\ UNCHANGED << selectedFile, lastLoadedFile, filterMode, filterSettingsByFile,
                  viewVars, settingsByFile, selVars, flowVars, loads, newEdges,
                  toolbarClicks, viewLastSet >>
  /\ TrackFilters
  /\ lastEvent' = NoEvent
  /\ UNCHANGED << pureVars, manifestVars, metricsVars, renameVars, layoutVars, domVars,
                  colorVars >>

(***************************************************************************)
(* Group and relationship colours.                                         *)
(***************************************************************************)
palette ==
  << "#f97316", "#f472b6", "#38bdf8", "#a855f7", "#10b981",
     "#ef4444", "#facc15", "#22d3ee", "#818cf8", "#f87171" >>

relationshipPalette ==
  << "#2563eb", "#db2777", "#14b8a6", "#f97316", "#8b5cf6",
     "#22c55e", "#f59e0b", "#ef4444", "#0ea5e9", "#f472b6" >>

\* Most groups, and most relationship types, of a dataset coloured while it
\* was built.
MaxPriorGroups == 9

\* String.prototype.toLowerCase on the strings of the model.
ToLowerCase(s) ==
  IF s = "Film" THEN "film"
  ELSE IF s = "Relationship" THEN "relationship"
  ELSE IF s = "SHOWS" THEN "shows"
  ELSE s

\* A plausible slip: every lookup advances the palette index.
getColorForIdentifierAdvancing(map, index, identifier) ==
  LET trimmed == ToLowerCase(Trim(identifier))
      key == IF trimmed # "" THEN trimmed ELSE "default"
  IN IF key \in DOMAIN map
     THEN [color |-> map[key], map |-> map, index |-> index + 1]
     ELSE [color |-> palette[(index % Len(palette)) + 1],
           map |-> map @@ (key :> palette[(index % Len(palette)) + 1]),
           index |-> index + 1]

\* getColorForIdentifier(identifier): the colour returned, and the map and
\* the palette index it leaves.
getColorForIdentifier(map, index, identifier) ==
  LET trimmed == ToLowerCase(Trim(identifier))
      key == IF trimmed # "" THEN trimmed ELSE "default"
  IN IF key \in DOMAIN map
     THEN [color |-> map[key], map |-> map, index |-> index]
     ELSE [color |-> palette[(index % Len(palette)) + 1],
           map |-> map @@ (key :> palette[(index % Len(palette)) + 1]),
           index |-> index + 1]

\* getColorForRelationship(identifier), likewise.
getColorForRelationship(map, index, identifier) ==
  LET trimmed == ToLowerCase(Trim(identifier))
      key == IF trimmed # "" THEN trimmed ELSE "relationship"
  IN IF key \in DOMAIN map
     THEN [color |-> map[key], map |-> map, index |-> index]
     ELSE [color |-> relationshipPalette[(index % Len(relationshipPalette)) + 1],
           map |-> map @@ (key :> relationshipPalette[(index % Len(relationshipPalette)) + 1]),
           index |-> index + 1]

\* Identifiers that differ by case and blanks, the empty ones, and the names
\* the empty ones are filed under.
GroupIdentifiers == {"Film", " film ", "", "default"}
RelationshipIdentifiers == {"", "Relationship ", "SHOWS"}

\* The groups (and relationship types) of the dataset, coloured in this order
\* while it was built.
groupName(i) == "t" \o ToString(i)

\* The identifiers a lookup may be made with: a named one, or a group of the
\* dataset.
LookupsOf(identifiers, seen) ==
  identifiers \cup {groupName(i) : i \in {j \in 1..MaxPriorGroups :
                                            \E q \in DOMAIN seen : seen[q] = groupName(j)}}

\* nodeColorMap and paletteIndex after getColorForIdentifier was called for
\* the first n groups of the dataset, in order.
RECURSIVE groupColorsAfter(_)
groupColorsAfter(n) ==
  IF n = 0 THEN [map |-> << >>, index |-> 0]
  ELSE getColorForIdentifier(groupColorsAfter(n - 1).map, groupColorsAfter(n - 1).index,
                             groupName(n))

\* Likewise for getColorForRelationship and the first n relationship types.
RECURSIVE relationshipColorsAfter(_)
relationshipColorsAfter(n) ==
  IF n = 0 THEN [map |-> << >>, index |-> 0]
  ELSE getColorForRelationship(relationshipColorsAfter(n - 1).map,
                               relationshipColorsAfter(n - 1).index, groupName(n))

\* seen, with the trimmed and lower-cased identifier added at its first lookup.
SeenWith(seen, identifier) ==
  IF \E q \in DOMAIN seen : seen[q] = ToLowerCase(Trim(identifier))
  THEN seen ELSE Append(seen, ToLowerCase(Trim(identifier)))

NoLookup == [fn |-> "none", identifier |-> "", color |-> ""]

IdleColors ==
  /\ nodeColorMap = << >>
  /\ paletteIndex = 0
  /\ relationshipColorMap = << >>
  /\ relationshipPaletteIndex = 0
  /\ lastColor = NoLookup
  /\ seenGroups = << >>
  /\ seenRelationships = << >>

\* A call of getColorForIdentifier.
GetColorForIdentifier(identifier) ==
  /\ LET r == getColorForIdentifier(nodeColorMap, paletteIndex, identifier)
     IN /\ nodeColorMap' = r.map
        /\ paletteIndex' = r.index
        /\ lastColor' = [fn |-> "getColorForIdentifier", identifier |-> identifier,
                         color |-> r.color]
  /\ seenGroups' = SeenWith(seenGroups, identifier)
  /\ UNCHANGED << relationshipColorMap, relationshipPaletteIndex, seenRelationships >>
  /\ UNCHANGED << uiVars, pureVars, manifestVars, metricsVars, renameVars, layoutVars,
                  domVars, addVars >>

\* A call of getColorForRelationship.
GetColorForRelationship(identifier) ==
  /\ LET r == getColorForRelationship(relationshipColorMap, relationshipPaletteIndex,
                                      identifier)
     IN /\ relationshipColorMap' = r.map
        /\ relationshipPaletteIndex' = r.index
        /\ lastColor' = [fn |-> "getColorForRelationship", identifier |-> identifier,
                         color |-> r.color]
  /\ seenRelationships' = SeenWith(seenRelationships, identifier)
  /\ UNCHANGED << nodeColorMap, paletteIndex, seenGroups >>
  /\ UNCHANGED << uiVars, pureVars, manifestVars, metricsVars, renameVars, layoutVars,
                  domVars, addVars >>

\* resetNodeColors()
ResetNodeColors ==
  /\ nodeColorMap' = << >>
  /\ paletteIndex' = 0
  /\ seenGroups' = << >>
  /\ lastColor' = NoLookup
  /\ UNCHANGED << relationshipColorMap, relationshipPaletteIndex, seenRelationships >>
  /\ UNCHANGED << uiVars, pureVars, manifestVars, metricsVars, renameVars, layoutVars,
                  domVars, addVars >>

\* resetRelationshipColors()
ResetRelationshipColors ==
  /\ relationshipColorMap' = << >>
  /\ relationshipPaletteIndex' = 0
  /\ seenRelationships' = << >>
  /\ lastColor' = NoLookup
  /\ UNCHANGED << nodeColorMap, paletteIndex, seenGroups >>
  /\ UNCHANGED << uiVars, pureVars, manifestVars, metricsVars, renameVars, layoutVars,
                  domVars, addVars >>

(***************************************************************************)
(* Specifications.                                                         *)
(***************************************************************************)
InitPure ==
  /\ staticData = NoPayload
  /\ normalized = NotNormalized
  /\ gridInput = NoGridInput
  /\ gridLayout = NoGridLayout
  /\ zoomInput = NoZoomInput
  /\ gc = DefaultGc

InitExt ==
  /\ IdleManifest
  /\ IdleMetrics
  /\ IdleRename
  /\ IdleLayout
  /\ IdleListeners
  /\ IdleAdd
  /\ IdleColors

Init == InitUI /\ InitPure /\ InitExt

\* Dataset switching, loading and filtering.
NextFilter ==
  \/ \E file \in Files : SelectFile(file)
  \/ \E i \in DOMAIN loads : LoadBegin(i)
  \/ \E i \in DOMAIN loads : LoadBuild(i)
  \/ \E i \in DOMAIN loads : LoadFinish(i)
  \/ \E label \in graphStats.nodeLabels : OnNodeLabelChip(label)
  \/ \E label \in graphStats.relationshipTypes : OnRelChip(label)
  \/ ClearFilters
  \/ \E mode \in {"highlight", "filter"} : SetFilterMode(mode)

SpecFilter == Init /\ [][NextFilter]_vars

\* Dataset switching, loading, selection and edge creation.
NextEdit ==
  \/ \E file \in Files : SelectFile(file)
  \/ \E i \in DOMAIN loads : LoadBegin(i)
  \/ \E i \in DOMAIN loads : LoadBuild(i)
  \/ \E i \in DOMAIN loads : LoadFinish(i)
  \/ \E item \in ItemsOf(graph) : ItemClicked(item)
  \/ CanvasClicked
  \/ EscapeKey
  \/ CloseOverlay
  \/ OnStartAddEdge
  \/ OnDeleteSelectedEdge
  \/ \E edge \in graph.edges : OnSearchEdges(edge)

SpecEdit == Init /\ [][NextEdit]_vars

\* Dataset switching, loading and the toolbar.
NextView ==
  \/ \E file \in Files : SelectFile(file)
  \/ \E i \in DOMAIN loads : LoadBegin(i)
  \/ \E i \in DOMAIN loads : LoadBuild(i)
  \/ \E i \in DOMAIN loads : LoadFinish(i)
  \/ OnEdgeLenShorter
  \/ OnEdgeLenLonger
  \/ OnClusterCloser
  \/ OnClusterWider
  \/ OnNodeSmaller
  \/ OnNodeLarger

SpecView == Init /\ [][NextView]_vars

\* normalizeGraphPayload on each modelled payload.
InitNorm ==
  /\ InitUI
  /\ InitExt
  /\ staticData \in ArrayPayloads \cup NestedPayloads
  /\ normalized = NotNormalized
  /\ gridInput = NoGridInput
  /\ gridLayout = NoGridLayout
  /\ zoomInput = NoZoomInput
  /\ gc = DefaultGc

SpecNorm == InitNorm /\ [][Normalize]_vars

\* The grid fallback on each node count and node scale.
InitGrid ==
  /\ InitUI
  /\ InitExt
  /\ staticData = NoPayload
  /\ normalized = NotNormalized
  /\ gridInput \in [count : 2..MaxGridNodes, nodeScale : NodeScaleMin..NodeScaleMax]
  /\ gridLayout = NoGridLayout
  /\ zoomInput = NoZoomInput
  /\ gc = DefaultGc

SpecGrid == InitGrid /\ [][GridFallback]_vars

\* The zoom adjustment on each node count, node scale and prior zoom state.
InitZoom ==
  /\ InitUI
  /\ InitExt
  /\ staticData = NoPayload
  /\ normalized = NotNormalized
  /\ gridInput = NoGridInput
  /\ gridLayout = NoGridLayout
  /\ zoomInput \in ZoomInputs
  /\ gc \in PriorGc

SpecZoom == InitZoom /\ [][AdjustInitialZoom]_vars

\* The dataset list of each modelled bundle.
InitManifest ==
  /\ InitUI
  /\ InitPure
  /\ dataModules \in BundledData
  /\ schemaModules \in BundledSchema
  /\ manifestEntries = << >>
  /\ initialFile = Null
  /\ IdleMetrics
  /\ IdleRename
  /\ IdleLayout
  /\ IdleListeners
  /\ IdleAdd
  /\ IdleColors

SpecManifest == InitManifest /\ [][BuildManifest]_vars

\* The evaluation scores for each modelled CSV and dataset list, after
\* construction: onMounted has queued the scores of the initial file.
InitMetrics ==
  /\ InitUI
  /\ InitPure
  /\ dataModules \in ScoredData
  /\ schemaModules \in ScoredSchema
  /\ manifestEntries = buildManifestEntries(graphModulesOf(dataModules, schemaModules))
  /\ initialFile = resolveDefaultFile(manifestEntries)
  /\ evaluationSummaryCsvRaw \in CsvFiles
  /\ evaluationSummary = NoSummary
  /\ evaluationSummaryLoaded = FALSE
  /\ metrics = NoScores
  /\ pendingMetrics = << initialFile >>
  /\ shownFile = initialFile
  /\ IdleRename
  /\ IdleLayout
  /\ IdleListeners
  /\ IdleAdd
  /\ IdleColors

NextMetrics ==
  \/ \E i \in DOMAIN manifestEntries : SelectDataset(manifestEntries[i].file)
  \/ ApplyMetrics

SpecMetrics == InitMetrics /\ [][NextMetrics]_vars

\* The rename script on each modelled directory and readdir order.
InitRename ==
  /\ InitUI
  /\ InitPure
  /\ IdleManifest
  /\ IdleMetrics
  /\ graphsDir \in GraphDirs
  /\ dirAtStart = graphsDir
  /\ dirEntries \in Orderings(graphsDir)
  /\ renamed = 0
  /\ report = Null
  /\ IdleLayout
  /\ IdleListeners
  /\ IdleAdd
  /\ IdleColors

SpecRename == InitRename /\ [][NormalizeEntry \/ ReportRenamed]_vars

\* The custom layout loop on each modelled graph.
InitLayout ==
  /\ InitUI
  /\ InitPure
  /\ IdleManifest
  /\ IdleMetrics
  /\ IdleRename
  /\ layoutGraph \in LayoutGraphs
  /\ positions = << >>
  /\ temperature = 0
  /\ iteration = 0
  /\ layoutPc = "call"
  /\ IdleListeners
  /\ IdleAdd
  /\ IdleColors

SpecLayout == InitLayout /\ [][LayoutStart \/ LayoutIteration \/ LayoutFinish]_vars

\* The live scales and the stored entry of the default file after toolbar clicks
\* have taken all three scales to their lower or to their upper clamps.
ClampedViews ==
  { [nodeScale |-> NodeScaleMin, edgeLenScale |-> EdgeLenScaleMin,
     clusterGapScale |-> ClusterGapScaleMin],
    [nodeScale |-> NodeScaleMax, edgeLenScale |-> EdgeLenScaleMax,
     clusterGapScale |-> ClusterGapScaleMax] }

\* Dataset switching, loading and the toolbar, from the clamps.
InitClamp ==
  /\ InitUIOther
  /\ InitPure
  /\ InitExt
  /\ \E v \in ClampedViews :
       /\ nodeScale = v.nodeScale
       /\ edgeLenScale = v.edgeLenScale
       /\ clusterGapScale = v.clusterGapScale
       /\ settingsByFile = [f \in Files |-> IF f = DefaultFile
                                            THEN [has |-> TRUE, value |-> v]
                                            ELSE NoViewEntry]
       /\ viewLastSet = settingsByFile

SpecClamp == InitClamp /\ [][NextView]_vars

\* Selection and edge creation while the component is mounted, and its
\* destruction at any moment; a destroyed component handles no event.
InitUnmount ==
  /\ InitUI
  /\ InitPure
  /\ IdleManifest
  /\ IdleMetrics
  /\ IdleRename
  /\ IdleLayout
  /\ IdleAdd
  /\ IdleColors
  /\ listeners = configureInteraction({})
  /\ lifecycle = "mounted"

NextUnmount ==
  \/ (lifecycle = "mounted" /\ NextEdit)
  \/ BeforeUnmount

SpecUnmount == InitUnmount /\ [][NextUnmount]_vars

\* 'Add node here' on a loaded dataset: loadGraph has finished for the
\* default file, whose nodes are any of the saved ones.
InitAddNode ==
  /\ InitPure
  /\ InitExt
  /\ selectedFile = DefaultFile
  /\ lastLoadedFile = DefaultFile
  /\ filterMode = "highlight"
  /\ activeNodeLabelFilter = Null
  /\ activeRelTypeFilter = Null
  /\ filterSettingsByFile = [f \in Files |-> NoFilterEntry]
  /\ nodeScale = 10
  /\ edgeLenScale = 10
  /\ clusterGapScale = 12
  /\ settingsByFile = ensureSettingsMap([f \in Files |-> NoViewEntry], DefaultFile)
  /\ viewLastSet = [f \in Files |-> NoViewEntry]
  /\ \E nodes \in SUBSET SavedNodes :
       /\ graph = [nodes |-> nodes, edges |-> {}]
       /\ graphStats = computeGraphStats(nodes, {})
  /\ selectedNode = Null
  /\ selectedEdge = NoEdge
  /\ lastSelectedINode = Null
  /\ lastSelectedIEdge = NoEdge
  /\ edgeCreateActive = FALSE
  /\ edgeCreateSource = Null
  /\ statusMessage = Status("Loaded", DefaultFile)
  /\ loads = << >>
  /\ newEdges = 0
  /\ toolbarClicks = 0
  /\ filtersInEffect = [f \in Files |->
                          IF f = DefaultFile
                          THEN [has |-> TRUE, value |-> DefaultFilterSettings]
                          ELSE NoFilterEntry]
  /\ afhRun = [depth |-> applyFilterHighlight(graph, Null, Null, "highlight", 1).depth,
               final |-> TRUE]
  /\ lastEvent = NoEvent

SpecAddNode == InitAddNode /\ [][OnAddNodeHere]_vars

\* normalizeGraphPayload on array payloads with typed nodes.
InitTyped ==
  /\ InitUI
  /\ InitExt
  /\ staticData \in TypedPayloads
  /\ normalized = NotNormalized
  /\ gridInput = NoGridInput
  /\ gridLayout = NoGridLayout
  /\ zoomInput = NoZoomInput
  /\ gc = DefaultGc

SpecTyped == InitTyped /\ [][Normalize]_vars

\* Colour lookups and resets in any order, after a dataset with no or with
\* MaxPriorGroups groups, and as many or no relationship types, was built.
InitColors ==
  /\ InitUI
  /\ InitPure
  /\ IdleManifest
  /\ IdleMetrics
  /\ IdleRename
  /\ IdleLayout
  /\ IdleListeners
  /\ IdleAdd
  /\ \E n \in {0, MaxPriorGroups} :
       /\ nodeColorMap = groupColorsAfter(n).map
       /\ paletteIndex = groupColorsAfter(n).index
       /\ seenGroups = [i \in 1..n |-> groupName(i)]
  /\ \E n \in {0, MaxPriorGroups} :
       /\ relationshipColorMap = relationshipColorsAfter(n).map
       /\ relationshipPaletteIndex = relationshipColorsAfter(n).index
       /\ seenRelationships = [i \in 1..n |-> groupName(i)]
  /\ lastColor = NoLookup

NextColors ==
  \/ \E identifier \in LookupsOf(GroupIdentifiers, seenGroups) :
       GetColorForIdentifier(identifier)
  \/ \E identifier \in LookupsOf(RelationshipIdentifiers, seenRelationships) :
       GetColorForRelationship(identifier)
  \/ ResetNodeColors
  \/ ResetRelationshipColors

SpecColors == InitColors /\ [][NextColors]_vars

\* Dataset switching while earlier loads are suspended.  Nothing in the code
\* orders the resumption of two suspended loadGraph() calls: each resumes when
\* the import, the payload or the layout it awaits is there.
NextOverlap ==
  \/ \E file \in Files : SelectFile(file)
  \/ \E file \in Files : SelectFileWhileLoading(file)
  \/ \E i \in DOMAIN loads : LoadBegin(i)
  \/ \E i \in DOMAIN loads : LoadBuild(i)
  \/ \E i \in DOMAIN loads : LoadFinish(i)

SpecOverlap == Init /\ [][NextOverlap]_vars

(***************************************************************************)
(* Properties.                                                             *)
(***************************************************************************)
\* C1: immediately after the selectedFile watcher has run for a switch to
\* dataset B, the live filterMode / activeNodeLabelFilter / activeRelTypeFilter
\* are the values last in effect while B was selected, or the defaults
\* ('highlight', null, null) if B was never selected before.
C1_FiltersRestoredPerDataset ==
  [][selectedFile' # selectedFile =>
       LiveFilters' = (IF filtersInEffect[selectedFile'].has
                       THEN filtersInEffect[selectedFile'].value
                       ELSE DefaultFilterSettings)]_vars

\* C2: a toolbar click changes only the stored settings entry of the selected
\* file (to the live scales), and a switch to a file restores the scales last
\* set by a click while that file was selected, or the defaults 1.0 / 1.0 / 1.2.
C2_ViewSettingsPerDataset ==
  [][/\ (toolbarClicks' # toolbarClicks) =>
          /\ \A f \in Files \ {selectedFile} : settingsByFile'[f] = settingsByFile[f]
          /\ settingsByFile'[selectedFile] = [has |-> TRUE, value |-> LiveView']
     /\ (selectedFile' # selectedFile) =>
          LiveView' = (IF viewLastSet[selectedFile'].has
                       THEN viewLastSet[selectedFile'].value
                       ELSE DefaultViewSettings)]_vars

\* C2, reached: fA was adjusted, fB was adjusted to other scales, and the
\* switch back to fA has just restored the scales of fA.
C2_Restored ==
  /\ selectedFile = "fA" /\ lastLoadedFile = "fB"
  /\ loads = << [file |-> "fA", pc |-> "begin"] >>
  /\ viewLastSet["fA"].has /\ viewLastSet["fB"].has
  /\ viewLastSet["fA"].value # viewLastSet["fB"].value
  /\ LiveView = viewLastSet["fA"].value
  /\ LiveView # DefaultViewSettings

\* The condition of C3: nodes is an array of objects with a string id, and every
\* edge has a string source-or-from and a string target-or-to.
CanonicalPayload(raw) ==
  /\ raw.nodesKind = "array"
  /\ \A i \in DOMAIN raw.nodesArray : raw.nodesArray[i].id.k = "string"
  /\ \A i \in DOMAIN raw.edges :
       /\ "string" \in {raw.edges[i].source.k, raw.edges[i].from.k}
       /\ "string" \in {raw.edges[i].target.k, raw.edges[i].to.k}

\* C3: normalizeGraphPayload returns a canonical payload with exactly the same
\* nodes (same ids, same order) and the same edges.
C3_CanonicalUnchanged ==
  (normalized.done /\ CanonicalPayload(staticData)) =>
     /\ normalized.payload.nodesArray = staticData.nodesArray
     /\ normalized.payload.edges = staticData.edges

\* C3, reached: a canonical payload of two nodes and a from/to edge was normalised.
C3_CanonicalNormalized ==
  /\ normalized.done /\ CanonicalPayload(staticData)
  /\ Len(staticData.nodesArray) = 2
  /\ Len(staticData.edges) = 1 /\ staticData.edges[1].from.k = "string"

\* The key C4 states for an item: its type-specific id field, else its id / ID,
\* else its 1-based index.
StatedKey(type, n, idx) ==
  IF n.hasFilmID /\ type = "Film" /\ ~IsNullish(n.Film_ID) THEN JsString(n.Film_ID)
  ELSE IF ~IsNullish(n.id) THEN JsString(n.id)
  ELSE IF ~IsNullish(n.ID) THEN JsString(n.ID)
  ELSE ToString(idx)

\* The nodes C4 states for the entries k.. of a nested payload.
RECURSIVE StatedNodeIds(_, _)
StatedNodeIds(entries, k) ==
  IF k > Len(entries) THEN << >>
  ELSE [i \in 1..Len(entries[k].arr) |->
          [id |-> entries[k].type \o ":" \o StatedKey(entries[k].type, entries[k].arr[i], i),
           type |-> entries[k].type]]
       \o StatedNodeIds(entries, k + 1)

\* C4: for a nested-by-type payload one node is emitted per array item, with id
\* '<Type>:<key>' and type <Type>, the key being the type-specific id field, else
\* id/ID/_id, else the 1-based index; and a classic edge is emitted with
\* from = 'TypeA:<source_value>' and to = 'TypeB:<target_value>' exactly when
\* both such nodes exist.
C4_NestedNormalisation ==
  (normalized.done /\ staticData.nodesKind = "object") =>
     LET out == normalized.payload
         ids == {out.nodesArray[i].id.s : i \in DOMAIN out.nodesArray}
     IN /\ [i \in DOMAIN out.nodesArray |->
              [id |-> out.nodesArray[i].id.s, type |-> out.nodesArray[i].type.s]]
           = StatedNodeIds(staticData.nodesObject, 1)
        /\ \A k \in DOMAIN staticData.edges :
             LET e == staticData.edges[k]
                 from == JsString(e.source) \o ":" \o JsString(e.source_value)
                 to == JsString(e.target) \o ":" \o JsString(e.target_value)
             IN (e.source_value.k # "undefined" /\ e.target_value.k # "undefined") =>
                  IF from \in ids /\ to \in ids
                  THEN /\ Len(out.edges) = 1
                       /\ out.edges[1].from = Str(from) /\ out.edges[1].to = Str(to)
                  ELSE out.edges = << >>

\* C5: after the grid fallback every node has a grid cell of its own and no two
\* node rectangles overlap at the current node scale, for every node scale of
\* the allowed range.
C5_GridRemovesOverlap ==
  gridLayout.done =>
     LET n == Len(gridLayout.rects)
         cols == CeilSqrt(n)
     IN \A i, j \in 1..n :
          i # j => /\ GridCell(i - 1, cols) # GridCell(j - 1, cols)
                   /\ ~Overlap(gridLayout.rects[i], gridLayout.rects[j])

C7_TwoStepEdgeCreation ==
  [][/\ (lastEvent'.op = "itemClicked" /\ edgeCreateActive
           /\ resolveNodeFromItem(lastEvent'.item) # Null) =>
          LET node == resolveNodeFromItem(lastEvent'.item)
          IN IF edgeCreateSource = Null
             THEN graph' = graph /\ edgeCreateActive' /\ edgeCreateSource' = node
             ELSE IF edgeCreateSource = node
             THEN graph' = graph /\ edgeCreateActive' /\ edgeCreateSource' = node
             ELSE /\ \E e \in graph'.edges :
                       /\ e \notin graph.edges
                       /\ graph'.edges = graph.edges \cup {e}
                       /\ e.src = edgeCreateSource /\ e.tgt = node
                  /\ ~edgeCreateActive' /\ edgeCreateSource' = Null
     /\ \A e \in graph'.edges : e.src # e.tgt]_vars

\* C8: while edge creation is active, a canvas click, a click on an item that is
\* not a node or node label, or Escape resets edgeCreateActive and
\* edgeCreateSource and adds no edge; and edgeCreateSource is non-null only if
\* edgeCreateActive is true.
C8_CancelLeavesGraphUnchanged ==
  /\ [](edgeCreateSource # Null => edgeCreateActive)
  /\ [][(/\ edgeCreateActive
         /\ \/ lastEvent'.op \in {"canvasClicked", "escape"}
            \/ lastEvent'.op = "itemClicked" /\ resolveNodeFromItem(lastEvent'.item) = Null) =>
          /\ ~edgeCreateActive' /\ edgeCreateSource' = Null
          /\ graph' = graph]_vars

\* C8, reached: 'Add edge' was started from a selected node and Escape cancelled it.
C8_CancelledByEscape ==
  /\ lastEvent.op = "escape" /\ statusMessage.text = "Edge creation cancelled"
  /\ lastSelectedINode # Null
  /\ ~edgeCreateActive /\ edgeCreateSource = Null /\ graph.edges # {}

\* At most one of selectedNode / selectedEdge, and of lastSelectedINode /
\* lastSelectedIEdge, is set.
ExclusiveSelection ==
  /\ selectedNode = Null \/ selectedEdge = NoEdge
  /\ lastSelectedINode = Null \/ lastSelectedIEdge = NoEdge

\* C9 as stated: selection is exclusive; a click on a node or its label selects
\* that node, a click on an edge or its label selects that edge, and a canvas
\* click clears both.
C9_ClickAlwaysSelects ==
  /\ []ExclusiveSelection
  /\ [][/\ (lastEvent'.op = "itemClicked" /\ resolveNodeFromItem(lastEvent'.item) # Null) =>
             selectedNode' = resolveNodeFromItem(lastEvent'.item)
        /\ (lastEvent'.op = "itemClicked" /\ resolveEdgeFromItem(lastEvent'.item) # NoEdge) =>
             selectedEdge' = resolveEdgeFromItem(lastEvent'.item)
        /\ (lastEvent'.op = "canvasClicked") => Selection' = NoSelection]_vars

\* C9, amended: selection is exclusive; a click on a node or its label selects
\* that node unless edge creation is active; a click on an edge or its label
\* selects that edge; a canvas click clears both.
C9_SelectionExclusive ==
  /\ []ExclusiveSelection
  /\ [][/\ (lastEvent'.op = "itemClicked" /\ resolveNodeFromItem(lastEvent'.item) # Null
              /\ ~edgeCreateActive) =>
             (selectedNode' = resolveNodeFromItem(lastEvent'.item) /\ selectedEdge' = NoEdge)
        /\ (lastEvent'.op = "itemClicked" /\ resolveEdgeFromItem(lastEvent'.item) # NoEdge) =>
             (selectedEdge' = resolveEdgeFromItem(lastEvent'.item) /\ selectedNode' = Null)
        /\ (lastEvent'.op = "canvasClicked") => Selection' = NoSelection]_vars

\* C9, reached: a click on an edge label has selected the edge that owns it.
C9_EdgeLabelSelected ==
  /\ lastEvent.op = "itemClicked" /\ lastEvent.item.kind = "edgeLabel"
  /\ selectedEdge = lastEvent.item.edge /\ selectedNode = Null
  /\ lastSelectedIEdge = lastEvent.item.edge /\ lastSelectedINode = Null

\* C10: applyFilterHighlight recurses at most two levels deep, and when it has
\* returned an active node-label filter matches at least one node and an active
\* relationship filter matches at least one edge.
C10_UnmatchedFilterCleared ==
  /\ afhRun.depth <= 2
  /\ afhRun.final =>
       /\ Truthy(activeNodeLabelFilter) =>
            \E n \in graph.nodes : NodeGroup(n) = activeNodeLabelFilter
       /\ Truthy(activeRelTypeFilter) =>
            \E e \in graph.edges : EdgeType(e) = activeRelTypeFilter

\* C10, reached: a chip whose label matches no node of the loaded graph was
\* clicked and applyFilterHighlight cleared it in its second level.
C10_FilterAutoCleared ==
  /\ afhRun = [depth |-> 2, final |-> TRUE]
  /\ graph.nodes # {} /\ loads = << >>
  /\ activeNodeLabelFilter = Null /\ activeRelTypeFilter = Null

\* The sorted list has every 'data' entry before every 'schema' entry, within a
\* source the 'spider_' ids first, and then the ids in locale order.
ManifestOrdered ==
  \A i, j \in DOMAIN manifestEntries :
    i < j => LET a == manifestEntries[i]
                 b == manifestEntries[j]
             IN /\ ~(a.source = "schema" /\ b.source = "data")
                /\ a.source = b.source => ~(~isSpider(a.id) /\ isSpider(b.id))
                /\ (a.source = b.source /\ isSpider(a.id) = isSpider(b.id)) =>
                      LocaleRank(a.id) <= LocaleRank(b.id)

\* C12: once the dataset list is built it has exactly one entry per bundled
\* graph file (of kgs_data and of kgs_schema), it is ordered 'data' before
\* 'schema', 'spider_' ids first, then by id, and the initially selected file is
\* the file of its first entry, or the empty string when the list is empty.
C12_OneEntryPerBundledFile ==
  initialFile # Null =>
     /\ Len(manifestEntries) = Len(dataModules) + Len(schemaModules)
     /\ ManifestOrdered
     /\ initialFile = IF manifestEntries = << >> THEN "" ELSE manifestEntries[1].file

\* The data rows of the CSV (the lines after the header, if there is one).
DataRows ==
  IF evaluationSummaryCsvRaw = << >> THEN {}
  ELSE { i \in DOMAIN evaluationSummaryCsvRaw :
           i > csvColumns(evaluationSummaryCsvRaw[1]).start }

\* The keys the statement gives a data row: D, D_kgs_data, D_kgs_data.json and,
\* with a KGS value K, K and K.json.
StatedRowKeys(parts) ==
  {parts[1], parts[1] \o "_kgs_data", parts[1] \o "_kgs_data.json"}
    \cup (IF Len(parts) >= 4 /\ parts[4] # "" THEN {parts[4], parts[4] \o ".json"} ELSE {})

StatedRowScores(parts) ==
  [schemaComp |-> parseScore(parts[2]), relationshipComp |-> parseScore(parts[3])]

\* The manifest entry of the dataset on display.
ShownEntry ==
  CHOOSE e \in { manifestEntries[i] : i \in DOMAIN manifestEntries } : e.file = shownFile

\* The scores are those of the dataset on display: no selection is waiting.
MetricsSettled == evaluationSummaryLoaded /\ pendingMetrics = << >>

FullRows ==
  { i \in DataRows : Len(evaluationSummaryCsvRaw[i]) = Len(evaluationSummaryCsvRaw[1]) }

\* The last full row that has the key, 0 if there is none.
LastRowWith(key) ==
  LET rows == { i \in FullRows : key \in StatedRowKeys(evaluationSummaryCsvRaw[i]) }
  IN IF rows = {} THEN 0 ELSE CHOOSE i \in rows : \A j \in rows : j <= i

StatedTarget(name) == PartsOf(name).stem \o "_yfiles.json"

\* C13: the rename script never overwrites or loses a file.  An iteration of the
\* loop renames its entry only if the entry is a regular file, its base name is
\* not 'manifest' (any case) and no entry of the target name exists at that
\* moment, and then only that entry's name changes; otherwise the directory is
\* left as it was.  At every moment each entry the directory started with is
\* still there, exactly once, and the number of entries is unchanged.
C13_RenameNeverOverwrites ==
  /\ [](/\ Cardinality(graphsDir) = Cardinality(dirAtStart)
        /\ \A o \in dirAtStart :
             Cardinality({ x \in graphsDir : x.was = o.name /\ x.kind = o.kind }) = 1
        /\ \A x \in graphsDir : isManifest(x.was) => x.name = x.was)
  /\ [][(dirEntries # << >> /\ dirEntries' = Tail(dirEntries)) =>
          LET entry == Head(dirEntries)
              target == StatedTarget(entry.name)
          IN
          IF renamed' # renamed
          THEN /\ entry.kind = "file"
               /\ ~isManifest(entry.name)
               /\ ~\E x \in graphsDir : x.name = target
               /\ graphsDir' = (graphsDir \ {entry}) \cup { [entry EXCEPT !.name = target] }
          ELSE graphsDir' = graphsDir]_vars

\* C13, reached: the script has finished; it renamed one file and left another as
\* it was because the target name was taken.
C13_RenamedAndSkipped ==
  /\ report # Null /\ report # "idle"
  /\ renamed = 1
  /\ \E x, y \in graphsDir :
       /\ x.name # x.was
       /\ y.kind = "file" /\ y.name = y.was /\ ~isManifest(y.name)
       /\ StatedTarget(y.name) # y.name
       /\ \E z \in dirAtStart : z.name = StatedTarget(y.name)

\* C14: when the script reports 'No files required renaming. All graph files
\* already follow the *_yfiles.json convention.', every regular file of the
\* directory other than the manifest has a name that ends in '_yfiles.json'.
C14_NoRenameMeansAllConform ==
  report = "No files required renaming" =>
     \A x \in graphsDir :
        (x.kind = "file" /\ ~isManifest(x.name)) =>
           (PartsOf(x.name).suffix = "_yfiles" /\ PartsOf(x.name).ext = ".json")

WithinClamps(v) ==
  /\ EdgeLenScaleMin <= v.edgeLenScale /\ v.edgeLenScale <= EdgeLenScaleMax
  /\ NodeScaleMin <= v.nodeScale /\ v.nodeScale <= NodeScaleMax
  /\ ClusterGapScaleMin <= v.clusterGapScale /\ v.clusterGapScale <= ClusterGapScaleMax

\* C16: after any sequence of toolbar clicks and dataset switches edgeLenScale is
\* in [0.6, 1.6], nodeScale in [0.6, 2.5] and clusterGapScale in [0.0, 3.0], and so
\* is every entry stored in settingsByFile.
C16_ScalesWithinClamps ==
  /\ WithinClamps(LiveView)
  /\ \A f \in Files : settingsByFile[f].has => WithinClamps(settingsByFile[f].value)

\* C16, reached: three clicks after all scales stood at a clamp they stand there
\* again, so one of the clicks was cut by its clamp; the entry of the selected
\* file was stored by these clicks.
C16_ClickCutByClamp ==
  /\ toolbarClicks = 3
  /\ LiveView \in ClampedViews
  /\ settingsByFile[selectedFile] = [has |-> TRUE, value |-> LiveView]

\* C17: after adjustInitialZoomForNodeCount has run on a non-empty graph the
\* on-screen node width, zoom x baseNodeWidth x nodeScale, is at least 0.92 times
\* computeMinReadableNodePixelWidth(nodeCount).  Both sides are in units of
\* 1/ZoomScale pixel.
C17_NodeWidthReadable ==
  zoomInput.done =>
     (gc.zoom * baseNodeWidth * zoomInput.nodeScale) \div 10
        >= (92 * computeMinReadableNodePixelWidth(zoomInput.count) * 100)
              \div (MAX_READABLE_NODE_COUNT - MIN_READABLE_NODE_COUNT)

\* C18: after onBeforeUnmount has run the cleanup, none of the four listeners
\* registered by configureInteraction (contextmenu and wheel on the graph
\* element, click and keydown on the document) is still registered.
C18_ListenersRemoved ==
  lifecycle = "unmounted" => listeners = {}

\* The id 'Add node here' reported in the status message.
AddedId == statusMessage.arg

\* C19: every 'Add node here' gives the new node the id new-node-i of the
\* smallest i >= 1 that no node of the graph had, the graph holds one more
\* node afterwards, and the node ids of the graph stay pairwise distinct.
C19_AddedIdsUnique ==
  /\ [](\A n \in graph.nodes : \A m \in graph.nodes : n.id = m.id => n = m)
  /\ [][newNodes' = newNodes + 1 =>
          /\ \E i \in 1..(Cardinality(graph.nodes) + 1) :
               /\ AddedId' = newNodeId(i)
               /\ \A j \in 1..(i - 1) : \E n \in graph.nodes : n.id = newNodeId(j)
          /\ \A n \in graph.nodes : n.id # AddedId'
          /\ \E n \in graph'.nodes : n.id = AddedId' /\ n \notin graph.nodes
          /\ Cardinality(graph'.nodes) = Cardinality(graph.nodes) + 1]_vars

\* Two nodes were added to a dataset that held new-node-2 and neither
\* new-node-1 nor new-node-3: the first became new-node-1, the second new-node-3.
C19_SkippedSavedId ==
  /\ newNodes = 2
  /\ AddedId = "new-node-3"
  /\ [id |-> "new-node-2", type |-> "Film", label |-> "Saved"] \in graph.nodes
  /\ [id |-> "new-node-1", type |-> Null, label |-> "New Node"] \in graph.nodes

\* The reference an edge gives for its source end, and the type hint that
\* goes with it: from with fromType, source_value with source, or source alone.
StatedFromRef(e) ==
  IF ~IsNullish(e.from) THEN [ref |-> e.from, hint |-> e.fromType]
  ELSE IF ~IsNullish(e.source_value) THEN [ref |-> e.source_value, hint |-> e.source]
  ELSE [ref |-> e.source, hint |-> Undef]

\* The types of the nodes of arr that carry the raw id val.
TypesWithRawId(arr, val) ==
  {caseAType(arr[i]) : i \in {j \in DOMAIN arr : caseAIdKey(arr[j], j) = val}}

\* A bare id that nodes of two different types carry.
AmbiguousRef(arr, ref) ==
  /\ ref.k \in {"string", "number"}
  /\ ~HasColon(ref.s)
  /\ Cardinality(TypesWithRawId(arr, ref.s)) >= 2

\* The hint names the type of one of the nodes that carry the raw id.
UsableHint(arr, ref, hint) ==
  ~IsNullish(hint) /\ JsString(hint) \in TypesWithRawId(arr, ref.s)

\* C20: in the result of normalizing an array payload, an edge whose source
\* end is a bare id carried by nodes of two types, with no usable type hint,
\* is omitted; with a usable hint the edge, when kept, starts at the node of
\* the hinted type.
C20_AmbiguousReferenceDropped ==
  (normalized.done /\ staticData.nodesKind = "array") =>
    \A k \in DOMAIN staticData.edges :
      LET e == staticData.edges[k]
          arr == staticData.nodesArray
          r == StatedFromRef(e)
      IN AmbiguousRef(arr, r.ref) =>
           IF UsableHint(arr, r.ref, r.hint)
           THEN \A q \in DOMAIN normalized.payload.edges :
                  normalized.payload.edges[q].from = Str(JsString(r.hint) \o ":" \o r.ref.s)
           ELSE normalized.payload.edges = << >>

\* Where x stands in the sequence seq.
PositionIn(seq, x) == CHOOSE q \in DOMAIN seq : seq[q] = x

\* The colour the k-th of the distinct identifiers is to receive.
KthColour(pal, k) == pal[((k - 1) % 10) + 1]

\* C21 as stated: a lookup returns the palette colour of the place its
\* identifier, trimmed and lower-cased, has among the distinct identifiers
\* looked up since the reset.
C21_KthIdentifierKthColour ==
  /\ lastColor.fn = "getColorForIdentifier" =>
       lastColor.color =
         KthColour(palette, PositionIn(seenGroups, ToLowerCase(Trim(lastColor.identifier))))
  /\ lastColor.fn = "getColorForRelationship" =>
       lastColor.color =
         KthColour(relationshipPalette,
                   PositionIn(seenRelationships, ToLowerCase(Trim(lastColor.identifier))))

\* The distinct keys of the identifiers seen, by first lookup: an empty
\* identifier counts as the name given.
RECURSIVE KeysInOrder(_, _)
KeysInOrder(seen, emptyName) ==
  IF seen = << >> THEN << >>
  ELSE LET front == KeysInOrder(SubSeq(seen, 1, Len(seen) - 1), emptyName)
           key == IF seen[Len(seen)] = "" THEN emptyName ELSE seen[Len(seen)]
       IN IF \E q \in DOMAIN front : front[q] = key THEN front ELSE Append(front, key)

\* The key of the identifier of the last lookup.
LastKey(emptyName) ==
  IF ToLowerCase(Trim(lastColor.identifier)) = "" THEN emptyName
  ELSE ToLowerCase(Trim(lastColor.identifier))

\* The colours of up to ten keys are pairwise distinct, and each key has the
\* palette colour of its place.
ColoursByPlace(map, keys, pal) ==
  /\ DOMAIN map = {keys[q] : q \in DOMAIN keys}
  /\ \A q \in DOMAIN keys : map[keys[q]] = KthColour(pal, q)
  /\ Len(keys) <= 10 => \A q \in DOMAIN keys : \A r \in DOMAIN keys :
                          map[keys[q]] = map[keys[r]] => q = r

\* C21: with the empty identifier counted as 'default' (for relationships as
\* 'relationship'), a lookup returns the palette colour of the place its key
\* has among the distinct keys looked up since the reset, so equal keys get
\* equal colours on every call; up to ten keys have pairwise distinct
\* colours; and no lookup changes the colour of a key that had one.
C21_KthKeyKthColour ==
  /\ [](/\ lastColor.fn = "getColorForIdentifier" =>
             lastColor.color =
               KthColour(palette,
                         PositionIn(KeysInOrder(seenGroups, "default"), LastKey("default")))
        /\ lastColor.fn = "getColorForRelationship" =>
             lastColor.color =
               KthColour(relationshipPalette,
                         PositionIn(KeysInOrder(seenRelationships, "relationship"),
                                    LastKey("relationship")))
        /\ ColoursByPlace(nodeColorMap, KeysInOrder(seenGroups, "default"), palette)
        /\ ColoursByPlace(relationshipColorMap,
                          KeysInOrder(seenRelationships, "relationship"),
                          relationshipPalette))
  /\ [][/\ lastColor'.fn = "getColorForIdentifier" =>
             \A key \in DOMAIN nodeColorMap :
               key \in DOMAIN nodeColorMap' /\ nodeColorMap'[key] = nodeColorMap[key]
        /\ lastColor'.fn = "getColorForRelationship" =>
             \A key \in DOMAIN relationshipColorMap :
               /\ key \in DOMAIN relationshipColorMap'
               /\ relationshipColorMap'[key] = relationshipColorMap[key]]_vars

\* More than ten groups have a colour; the empty identifier was looked up,
\* then 'default', which was given the colour of the empty one, the first
\* colour of the palette again.
C21_EmptySharesDefault ==
  /\ Len(seenGroups) >= 2
  /\ seenGroups[Len(seenGroups) - 1] = ""
  /\ seenGroups[Len(seenGroups)] = "default"
  /\ paletteIndex = Len(seenGroups) - 1
  /\ paletteIndex > Len(palette)
  /\ lastColor = [fn |-> "getColorForIdentifier", identifier |-> "default",
                  color |-> nodeColorMap["default"]]
  /\ nodeColorMap["default"] = nodeColorMap[seenGroups[paletteIndex - Len(palette)]]

\* C22: once no load is suspended any more, the graph, the statistics, the
\* status message and lastLoadedFile are those of the selected dataset; and
\* the graph never holds nodes of two datasets.
C22_SettlesOnSelected ==
  /\ loads = << >> =>
       /\ graph = [nodes |-> NodesOf(selectedFile), edges |-> EdgesOf(selectedFile)]
       /\ graphStats = computeGraphStats(NodesOf(selectedFile), EdgesOf(selectedFile))
       /\ statusMessage = Status("Loaded", selectedFile)
       /\ lastLoadedFile = selectedFile
  /\ \E file \in Files : graph.nodes \subseteq NodesOf(file)

====
